---- MODULE Spec2Model ----
(***************************************************************************)
(* Model of the ISO/IEC 7810 ID-1 document detector                        *)
(* (src/src/preprocessing/document_detection/iso_id1_document_detector.cpp)*)
(*                                                                         *)
(* Units.  Ratios held in double fields are kept as integers in units of   *)
(* 1/10000 (0.05 is 500, 1.586 is 15860).  Sub-scores are integers in      *)
(* units of 1e-6 and a total score is an integer in units of 1e-8          *)
(* (0.1 is 10000000).  Comparisons of quotients are exact (CmpFrac);       *)
(* quotients whose value is kept are floored to six decimals.              *)
(* float values of DocumentBounds are IEEE binary32 values [m, e] meaning  *)
(* m * 2^(-e) with 2^23 <= m < 2^24, or m = 0.                             *)
(***************************************************************************)
EXTENDS Integers, Sequences, FiniteSets, TLC

VARIABLES
    params,     \* the detector's seven parameter fields
    explicit,   \* what the setters were last called with (history of the configuration)
    call,       \* the record of the detectDocument call in progress or just returned
    bounds,     \* the caller's DocumentBounds and which of its fields were written
    sortRun,    \* one application of sortCornerPoints: input, result, result for the reference order
    ctx,        \* the id_reader_context: its DocumentDetector's parameters and its config map
    api,        \* the C API call just returned: its arguments, its return value, the caller's result pointer
    calc        \* one application of a pure function of the detector: its arguments and its value

vars == <<params, explicit, call, bounds, sortRun, ctx, api, calc>>

----------------------------------------------------------------------------
(* Bounds of the model *)

MaxContours == 2
MaxCoord == 2

----------------------------------------------------------------------------
(* Arithmetic helpers *)

Min(a, b) == IF a < b THEN a ELSE b
Max(a, b) == IF a > b THEN a ELSE b
Abs(a) == IF a < 0 THEN -a ELSE a

\* sign of n1/d1 - n2/d2 for n1, n2 >= 0 and d1, d2 > 0, without forming products
RECURSIVE CmpFrac(_, _, _, _)
CmpFrac(n1, d1, n2, d2) ==
    LET q1 == n1 \div d1
        q2 == n2 \div d2
        r1 == n1 % d1
        r2 == n2 % d2
    IN  IF q1 # q2 THEN (IF q1 < q2 THEN -1 ELSE 1)
        ELSE IF r1 = 0 /\ r2 = 0 THEN 0
        ELSE IF r1 = 0 THEN -1
        ELSE IF r2 = 0 THEN 1
        ELSE CmpFrac(d2, r2, d1, r1)

\* floor(10^k * n / d) for 0 <= n < d, by long division
RECURSIVE FracDigits(_, _, _)
FracDigits(n, d, k) ==
    IF k = 0 THEN 0
    ELSE LET t == 10 * n
         IN  (t \div d) * (10 ^ (k - 1)) + FracDigits(t % d, d, k - 1)

\* floor(sqrt(n)) by bisection on lo..hi
RECURSIVE IsqrtIn(_, _, _)
IsqrtIn(n, lo, hi) ==
    IF lo = hi THEN lo
    ELSE LET mid == (lo + hi + 1) \div 2
         IN  IF mid * mid <= n THEN IsqrtIn(n, mid, hi) ELSE IsqrtIn(n, lo, mid - 1)

----------------------------------------------------------------------------
(* Geometry primitives of the image library, on contours: sequences of <<x, y>> *)

PX(p) == p[1]
PY(p) == p[2]

Range(s) == {s[i] : i \in DOMAIN s}

\* cv::contourArea, doubled: |sum of cross products| (shoelace formula)
RECURSIVE ShoelaceFrom(_, _)
ShoelaceFrom(c, i) ==
    IF i > Len(c) THEN 0
    ELSE PX(c[i]) * PY(c[(i % Len(c)) + 1]) - PX(c[(i % Len(c)) + 1]) * PY(c[i])
         + ShoelaceFrom(c, i + 1)

ContourArea2(c) == Abs(ShoelaceFrom(c, 1))

SetMin(S) == CHOOSE v \in S : \A w \in S : v <= w
SetMax(S) == CHOOSE v \in S : \A w \in S : v >= w

\* cv::boundingRect of a non-empty point sequence: inclusive of both end pixels
RectOf(x1, y1, x2, y2) == [x |-> x1, y |-> y1, width |-> x2 - x1 + 1, height |-> y2 - y1 + 1]

Xs(c) == {PX(c[i]) : i \in DOMAIN c}
Ys(c) == {PY(c[i]) : i \in DOMAIN c}

BoundingRect(c) == RectOf(SetMin(Xs(c)), SetMin(Ys(c)), SetMax(Xs(c)), SetMax(Ys(c)))

\* cv::minEnclosingCircle: the centre, in doubled coordinates.  The contours of
\* the model are centrally symmetric about the centre of their bounding box (or
\* within a pixel of it after rescaling), so that centre is the circle's centre.
MinEnclosingCenter2(c) ==
    <<SetMin(Xs(c)) + SetMax(Xs(c)), SetMin(Ys(c)) + SetMax(Ys(c))>>

\* cv::convexHull, for the small point sequences of the model: the points p for
\* which some line through p and another point a has every point on one side
\* and none behind p, kept in contour order
Cross(o, a, b) == (PX(a) - PX(o)) * (PY(b) - PY(o)) - (PY(a) - PY(o)) * (PX(b) - PX(o))

Dot(o, a, b) == (PX(a) - PX(o)) * (PX(b) - PX(o)) + (PY(a) - PY(o)) * (PY(b) - PY(o))

IsHullVertex(p, P) ==
    \/ P = {p}
    \/ \E O \in {P \ {p}} : \E a \in O :
          \A b \in O : Cross(p, a, b) > 0 \/ (Cross(p, a, b) = 0 /\ Dot(p, a, b) > 0)

RECURSIVE HullFrom(_, _, _)
HullFrom(c, i, P) ==
    IF i > Len(c) THEN <<>>
    ELSE IF (\A j \in 1..(i - 1) : c[j] # c[i]) /\ IsHullVertex(c[i], P)
         THEN <<c[i]>> \o HullFrom(c, i + 1, P)
         ELSE HullFrom(c, i + 1, P)

ConvexHull(c) == HullFrom(c, 1, Range(c))

----------------------------------------------------------------------------
(* The detector's parameters *)

\* ISO_ID1_DocumentDetector::ISO_ID1_DocumentDetector
InitialParams ==
    [canny1 |-> 10, canny2 |-> 30, minArea |-> 20, maxArea |-> 9900,
     eps |-> 100, tol |-> 4000, target |-> 15860]

NoExplicit == [canny |-> <<>>, area |-> <<>>, aspect |-> <<>>]

\* values the setters are called with in the model
CannyChoices == {<<50, 150>>}
AreaChoices == {<<1000, 5000>>}
AspectChoices == {<<14200, 1000>>}

\* the resolution table of adaptParametersForImageSize (lines 432-464)
ResolutionRow(min_dimension) ==
    IF min_dimension < 400 THEN
        [canny1 |-> 30, canny2 |-> 90, minArea |-> 500, maxArea |-> 9500, eps |-> 200, tol |-> 5000]
    ELSE IF min_dimension < 800 THEN
        [canny1 |-> 25, canny2 |-> 75, minArea |-> 100, maxArea |-> 9000, eps |-> 150, tol |-> 4000]
    ELSE IF min_dimension < 1500 THEN
        [canny1 |-> 20, canny2 |-> 60, minArea |-> 50, maxArea |-> 8500, eps |-> 100, tol |-> 3500]
    ELSE
        [canny1 |-> 15, canny2 |-> 45, minArea |-> 20, maxArea |-> 8000, eps |-> 80, tol |-> 3000]

\* a variant that takes a ratio of exactly 2.5 for wide
IsWideInclusive(width, height) == 2 * Max(width, height) >= 5 * Min(width, height)

\* max_dimension / min_dimension > 2.5 (line 468)
IsWide(width, height) == 2 * Max(width, height) > 5 * Min(width, height)

\* a variant whose adjustment for wide frames halves the ratio the detector holds
adaptParametersAccumulating(p, width, height) ==
    LET row == ResolutionRow(Min(width, height))
        wide == IsWide(width, height)
    IN  [canny1 |-> row.canny1, canny2 |-> row.canny2,
         minArea |-> IF wide THEN p.minArea \div 2 ELSE row.minArea,
         maxArea |-> row.maxArea,
         eps |-> row.eps,
         tol |-> IF wide THEN (row.tol * 12) \div 10 ELSE row.tol,
         target |-> p.target]

\* ISO_ID1_DocumentDetector::adaptParametersForImageSize: every field but the
\* target aspect ratio is assigned from the table, then adjusted for wide frames
adaptParametersForImageSize(p, width, height) ==
    LET row == ResolutionRow(Min(width, height))
        wide == IsWide(width, height)
    IN  [canny1 |-> row.canny1, canny2 |-> row.canny2,
         minArea |-> IF wide THEN row.minArea \div 2 ELSE row.minArea,
         maxArea |-> row.maxArea,
         eps |-> row.eps,
         tol |-> IF wide THEN (row.tol * 12) \div 10 ELSE row.tol,
         target |-> p.target]

----------------------------------------------------------------------------
(* Scoring *)

\* floor(1e6 * n / d) for n >= 0, d > 0
RatioMicro(n, d) == (n \div d) * 1000000 + FracDigits(n % d, d, 6)

\* a variant that gives 0.9 from a ratio of 0.85 on, not above it
AreaScoreFrom85(area2, image_area) ==
    LET ge(k) == CmpFrac(area2, 2 * image_area, k, 1000) >= 0
        le(k) == CmpFrac(area2, 2 * image_area, k, 1000) <= 0
    IN  IF ge(2) /\ le(990) THEN
            IF ge(10) /\ le(700) THEN 1000000
            ELSE IF ge(850) THEN 900000
            ELSE 500000
        ELSE 0

\* area sub-score (lines 210-228), units of 1e-6; area2 is twice the contour area
AreaScore(area2, image_area) ==
    LET ge(k) == CmpFrac(area2, 2 * image_area, k, 1000) >= 0
        le(k) == CmpFrac(area2, 2 * image_area, k, 1000) <= 0
    IN  IF ge(2) /\ le(990) THEN
            IF ge(10) /\ le(700) THEN 1000000
            ELSE IF ~le(850) THEN 900000
            ELSE 500000
        ELSE 0

\* aspect sub-score (lines 230-239): 0 when aspect_diff > tolerance, else
\* 1 - aspect_diff / tolerance, with aspect_diff = |w/h - target| / target
AspectScoreOf(num, den, tol) ==
    IF CmpFrac(num, den, tol, 10000) <= 0
    THEN 1000000 - RatioMicro(RatioMicro(num, den), tol * 100)
    ELSE 0

AspectScore(bw, bh, target, tol) ==
    AspectScoreOf(Abs(10000 * bw - target * bh), target * bh, tol)

\* a variant whose last band ends at 13 vertices
ShapeScoreTo13(n) ==
    IF n = 4 THEN 1000000
    ELSE IF n >= 4 /\ n <= 8 THEN 800000
    ELSE IF n > 8 /\ n <= 13 THEN 500000
    ELSE 0

\* shape sub-score (lines 241-250)
ShapeScore(n) ==
    IF n = 4 THEN 1000000
    ELSE IF n >= 4 /\ n <= 8 THEN 800000
    ELSE IF n > 8 /\ n <= 12 THEN 500000
    ELSE 0

\* position sub-score (lines 252-260): 1 - |centre - image centre| / |image centre|,
\* the ratio of the two norms taken to three decimals
PositionScoreOf(ctr, width, height) ==
    1000000 - 1000 * IsqrtIn(RatioMicro((ctr[1] - width) * (ctr[1] - width)
                                        + (ctr[2] - height) * (ctr[2] - height),
                                        width * width + height * height), 0, 46340)

PositionScore(c, width, height) == PositionScoreOf(MinEnclosingCenter2(c), width, height)

\* a variant that weighs the aspect ratio like the shape (0.15)
WeightedSumLowAspect(area_score, aspect_score, shape_score, position_score) ==
    25 * area_score + 15 * aspect_score + 15 * shape_score + 20 * position_score

\* a variant that weighs the area like the aspect ratio (0.40)
WeightedSumHighArea(area_score, aspect_score, shape_score, position_score) ==
    40 * area_score + 40 * aspect_score + 15 * shape_score + 20 * position_score

\* ISO_ID1_DocumentDetector::calculateDocumentScore, units of 1e-8
WeightedSum(area_score, aspect_score, shape_score, position_score) ==
    25 * area_score + 40 * aspect_score + 15 * shape_score + 20 * position_score

\* the four sub-scores of a contour of twice the area area2, bounding
\* rectangle bw x bh, n vertices and enclosing circle of doubled centre ctr
SubScores(area2, bw, bh, n, ctr, width, height, p) ==
    [area |-> AreaScore(area2, width * height),
     aspect |-> AspectScore(bw, bh, p.target, p.tol),
     shape |-> ShapeScore(n),
     position |-> PositionScoreOf(ctr, width, height)]

\* lines 204-263 on those measures
ScoreOfMeasures(area2, bw, bh, n, ctr, width, height, p) ==
    IF n < 4 THEN 0
    ELSE LET s == SubScores(area2, bw, bh, n, ctr, width, height, p)
         IN  WeightedSum(s.area, s.aspect, s.shape, s.position)

ScoreWith(c, br, width, height, p) ==
    ScoreOfMeasures(ContourArea2(c), br.width, br.height, Len(c), MinEnclosingCenter2(c),
                    width, height, p)

calculateDocumentScore(c, width, height, p) ==
    IF Len(c) < 4 THEN 0 ELSE ScoreWith(c, BoundingRect(c), width, height, p)

----------------------------------------------------------------------------
(* Corner ordering *)

\* integer division of C++ (truncation toward zero), as in centroid.x /= 4
TruncDiv(a, b) == IF a >= 0 THEN a \div b ELSE -((-a) \div b)

\* the order of std::atan2(dy, dx) values in (-pi, pi], decided exactly;
\* atan2(0, 0) is 0.  A vector is <<dx, dy>>.
AngleClass(v) ==
    IF v[2] < 0 THEN 0
    ELSE IF v[2] = 0 /\ v[1] >= 0 THEN 1
    ELSE IF v[2] > 0 THEN 2
    ELSE 3

AngleLess(a, b) ==
    \/ AngleClass(a) < AngleClass(b)
    \/ /\ AngleClass(a) = AngleClass(b)
       /\ AngleClass(a) \in {0, 2}
       /\ a[1] * b[2] - a[2] * b[1] > 0

Permutations4 == {f \in [1..4 -> 1..4] : \A i \in 1..4 : \A j \in 1..4 : i # j => f[i] # f[j]}

\* lines 366-373
Centroid(points) ==
    <<TruncDiv(PX(points[1]) + PX(points[2]) + PX(points[3]) + PX(points[4]), 4),
      TruncDiv(PY(points[1]) + PY(points[2]) + PY(points[3]) + PY(points[4]), 4)>>

\* lines 376-385: the results std::sort may leave: every arrangement of the
\* points that is ascending by angle (the order of points of equal angle is
\* not specified by std::sort); v[i] is the vector from the centroid to points[i]
AscendingBy(points, v) ==
    {<<points[f[1]], points[f[2]], points[f[3]], points[f[4]]>> :
        f \in {g \in Permutations4 : \A i \in 1..3 : ~AngleLess(v[g[i + 1]], v[g[i]])}}

VectorFrom(c, q) == <<PX(q) - PX(c), PY(q) - PY(c)>>

VectorsFrom(points, c) ==
    <<VectorFrom(c, points[1]), VectorFrom(c, points[2]),
      VectorFrom(c, points[3]), VectorFrom(c, points[4])>>

SortedByAngle(points) ==
    UNION {AscendingBy(points, v) : v \in {VectorsFrom(points, Centroid(points))}}

\* lines 391-402: the first index, in sorted order, of minimal distance to (0,0)
Norm2(q) == PX(q) * PX(q) + PY(q) * PY(q)

TopLeftIndex(s) ==
    CHOOSE i \in 1..4 : /\ \A j \in 1..4 : Norm2(s[i]) <= Norm2(s[j])
                        /\ \A j \in 1..(i - 1) : Norm2(s[j]) > Norm2(s[i])

\* lines 404-407
RotateFrom(s, tl) ==
    <<s[tl], s[(tl % 4) + 1], s[((tl + 1) % 4) + 1], s[((tl + 2) % 4) + 1]>>

\* ISO_ID1_DocumentDetector::sortCornerPoints: the set of possible results
sortCornerPoints(points) ==
    IF Len(points) # 4 THEN {points}
    ELSE {RotateFrom(s, TopLeftIndex(s)) : s \in SortedByAngle(points)}

----------------------------------------------------------------------------
(* IEEE binary32 arithmetic of the normalisation *)

\* static_cast<float>(x) / w for integers 0 <= x, 0 < w, both below 2^24:
\* the correctly rounded quotient (round to nearest, ties to even)
RECURSIVE F32Bits(_, _, _, _)
F32Bits(m, r, w, e) ==
    IF m >= 8388608 THEN [m |-> m, r |-> r, e |-> e]
    ELSE F32Bits(2 * m + (IF 2 * r >= w THEN 1 ELSE 0), (2 * r) % w, w, e + 1)

F32Div(x, w) ==
    IF x = 0 THEN [m |-> 0, e |-> 0]
    ELSE LET b == F32Bits(x \div w, x % w, w, 0)
             up == 2 * b.r > w \/ (2 * b.r = w /\ b.m % 2 = 1)
             m1 == IF up THEN b.m + 1 ELSE b.m
         IN  IF m1 = 16777216 THEN [m |-> 8388608, e |-> b.e - 1]
             ELSE [m |-> m1, e |-> b.e]

RECURSIVE Log2Floor(_)
Log2Floor(n) == IF n < 2 THEN 0 ELSE 1 + Log2Floor(n \div 2)

\* (int)(f * w) for a float f in [0, 1] and an integer 0 < w < 2^13: the float
\* product, correctly rounded, then truncated.  The exact product m * w is
\* held in base 4096 digits d2, d1, d0.
F32MulTrunc(f, w) ==
    IF f.m = 0 THEN 0
    ELSE IF f.e = 23 THEN w
    ELSE LET A == (f.m \div 4096) * w
             B == (f.m % 4096) * w
             d0 == B % 4096
             a == A + (B \div 4096)
             d1 == a % 4096
             d2 == a \div 4096
             f2 == f.e - 24
             n == d2 \div (2 ^ f2)
             u == (2 ^ f2) - (d2 % (2 ^ f2))
             k == Log2Floor(n + 1)
             thrExp == f2 + k - (IF n + 1 = 2 ^ k THEN 1 ELSE 0)
             g == 16777216 - d1 * 4096 - d0
             up == u = 1 /\ thrExp >= 0 /\ g <= 2 ^ thrExp
         IN  IF up THEN n + 1 ELSE n

\* f <= 1.0 and f >= 0.0 for a binary32 value [m, e]
F32InUnit(f) == f.m = 0 \/ f.e >= 24 \/ (f.e = 23 /\ f.m = 8388608)

----------------------------------------------------------------------------
(* Input images and the contours found in them *)

\* line 58
target_width == 1200

\* <<cols, rows>> of the input images of the model; <<0, 0>> is the empty image
Images ==
    {<<0, 0>>, <<16, 12>>, <<640, 480>>, <<1200, 900>>, <<1600, 1200>>,
     <<2400, 800>>, <<3000, 2000>>, <<800, 3200>>, <<4800, 1>>}

\* cvRound of n / d (round half to even), n >= 0, d > 0
RoundHalfEven(n, d) ==
    LET q == n \div d
        r == n % d
    IN  IF 2 * r > d \/ (2 * r = d /\ q % 2 = 1) THEN q + 1 ELSE q

\* a variant that never downscales
WorkingSizeOfInput(cols, rows) == <<cols, rows>>

\* lines 59-64: the working image's size; cv::resize with fx = fy = scale_factor
\* rounds each dimension of the result
WorkingSize(cols, rows) ==
    IF cols > target_width
    THEN <<RoundHalfEven(cols * target_width, cols), RoundHalfEven(rows * target_width, cols)>>
    ELSE <<cols, rows>>

Rect(x1, y1, x2, y2) == <<<<x1, y1>>, <<x2, y1>>, <<x2, y2>>, <<x1, y2>>>>

\* a rectangle of height h and width round(1.586 h) centred in a W x H frame
CenteredID1(W, H, h) ==
    LET w == (1586 * h + 500) \div 1000
        x1 == (W - w) \div 2
        y1 == (H - h) \div 2
    IN  Rect(x1, y1, x1 + w, y1 + h)

\* the same rectangle with its corners cut by r: a rounded rectangle
Octagon(W, H, h) ==
    LET c == CenteredID1(W, H, h)
        r == Max(1, h \div 8)
        x1 == PX(c[1])
        y1 == PY(c[1])
        x2 == PX(c[3])
        y2 == PY(c[3])
    IN  <<<<x1 + r, y1>>, <<x2 - r, y1>>, <<x2, y1 + r>>, <<x2, y2 - r>>,
          <<x2 - r, y2>>, <<x1 + r, y2>>, <<x1, y2 - r>>, <<x1, y1 + r>>>>

\* a six-sided contour whose leftmost point is also its topmost one
Hexagon(W, H, h) ==
    LET c == CenteredID1(W, H, h)
        x1 == PX(c[1])
        y1 == PY(c[1])
        x2 == PX(c[3])
        y2 == PY(c[3])
        dx == Max(1, (x2 - x1) \div 3)
        dy == Max(1, (y2 - y1) \div 3)
    IN  <<<<x1, y1>>, <<x2 - dx, y1>>, <<x2, y1 + dy>>, <<x2, y2>>, <<x1 + dx, y2>>, <<x1, y2 - dy>>>>

\* the largest height of an ID-1 rectangle that fits a W x H frame
FitHeight(W, H) == Min(H - 1, ((W - 1) * 1000) \div 1586)

\* cv::findContours (line 135): the contours an edge map of a W x H image may hold
Shapes(W, H) ==
    LET hh == FitHeight(W, H)
    IN  [id1a |-> CenteredID1(W, H, (2 * hh) \div 3),
         id1b |-> CenteredID1(W, H, (5 * hh) \div 6),
         octagon |-> Octagon(W, H, (2 * hh) \div 3),
         hexagon |-> Hexagon(W, H, (2 * hh) \div 3),
         diamond |-> <<<<W \div 2, 0>>, <<W - 1, H \div 2>>, <<W \div 2, H - 1>>, <<0, H \div 2>>>>,
         frame |-> Rect(0, 0, W - 1, H - 1),
         speck |-> Rect(0, 0, Min(1, W - 1), Min(1, H - 1)),
         triangle |-> <<<<W \div 4, H \div 4>>, <<(3 * W) \div 4, H \div 4>>, <<W \div 2, (3 * H) \div 4>>>>]

ShapeNames == {"id1a", "id1b", "octagon", "hexagon", "diamond", "frame", "speck", "triangle"}

\* cv::approxPolyDP (lines 188, 320): the polygon is kept (pick 0) or every
\* second vertex of it is dropped (pick 1)
RECURSIVE EverySecondFrom(_, _)
EverySecondFrom(c, i) ==
    IF i > Len(c) THEN <<>> ELSE <<c[i]>> \o EverySecondFrom(c, i + 2)

approxPolyDP(c, pick) == IF pick = 0 THEN c ELSE EverySecondFrom(c, 1)

\* a contour found, and what line 188 makes of it
Candidates(W, H) ==
    {[name |-> n, raw |-> Shapes(W, H)[n], pick |-> k] :
        n \in ShapeNames, k \in {0}}
    \cup {[name |-> "octagon", raw |-> Shapes(W, H).octagon, pick |-> 1]}

----------------------------------------------------------------------------
(* The stages of detectDocument *)

\* a variant that drops a contour whose area equals the lower limit
KeepMeasuredAboveMin(area2, br, W, H, p) ==
    /\ CmpFrac(area2, 2 * (W * H), p.minArea, 10000) > 0
    /\ ~(CmpFrac(area2, 2 * (W * H), p.maxArea, 10000) > 0)
    /\ (br.x = 0 /\ br.y = 0 /\ br.width = W /\ br.height = H)
          => (10 * br.width >= 12 * br.height /\ 10 * br.width <= 22 * br.height)

\* the predicate of std::remove_if negated (lines 149-171): TRUE when the contour is kept
KeepMeasured(area2, br, W, H, p) ==
    /\ ~(CmpFrac(area2, 2 * (W * H), p.minArea, 10000) < 0)
    /\ ~(CmpFrac(area2, 2 * (W * H), p.maxArea, 10000) > 0)
    /\ (br.x = 0 /\ br.y = 0 /\ br.width = W /\ br.height = H)
          => (10 * br.width >= 12 * br.height /\ 10 * br.width <= 22 * br.height)

KeepContour(c, W, H, p) == KeepMeasured(ContourArea2(c), BoundingRect(c), W, H, p)

\* lines 86-91: static_cast<int>(point.x / scale_factor) with scale_factor = 1200.0 / cols
RECURSIVE ScaleBackFrom(_, _, _)
ScaleBackFrom(c, i, cols) ==
    IF i > Len(c) THEN <<>>
    ELSE <<<<(PX(c[i]) * cols) \div target_width, (PY(c[i]) * cols) \div target_width>>>>
         \o ScaleBackFrom(c, i + 1, cols)

ScaleBack(c, cols) == ScaleBackFrom(c, 1, cols)

LexLess(a, b) == PX(a) < PX(b) \/ (PX(a) = PX(b) /\ PY(a) < PY(b))

RECURSIVE SortLex(_)
SortLex(S) ==
    IF S = {} THEN <<>>
    ELSE LET m == CHOOSE q \in S : \A r \in S : r = q \/ LexLess(q, r)
         IN  <<m>> \o SortLex(S \ {m})

\* std::min_element / std::max_element on coordinate axis (1 is x, 2 is y):
\* the first of the least / greatest
FirstMin(points, axis) ==
    points[CHOOSE i \in DOMAIN points :
              /\ \A j \in DOMAIN points : points[i][axis] <= points[j][axis]
              /\ \A j \in 1..(i - 1) : points[j][axis] > points[i][axis]]

FirstMax(points, axis) ==
    points[CHOOSE i \in DOMAIN points :
              /\ \A j \in DOMAIN points : points[i][axis] >= points[j][axis]
              /\ \A j \in 1..(i - 1) : points[j][axis] < points[i][axis]]

\* a variant that keeps the four extreme points without removing duplicates
selectFourCornersKeepingAll(points) ==
    IF Len(points) <= 4 THEN points
    ELSE <<FirstMin(points, 1), FirstMax(points, 1), FirstMin(points, 2), FirstMax(points, 2)>>

\* ISO_ID1_DocumentDetector::selectFourCorners
selectFourCorners(points) ==
    IF Len(points) <= 4 THEN points
    ELSE LET corners == {FirstMin(points, 1), FirstMax(points, 1),
                         FirstMin(points, 2), FirstMax(points, 2)}
         IN  SortLex(corners)

\* ISO_ID1_DocumentDetector::findCornerPoints; pick is the outcome of line 320
findCornerPoints(contour, pick) ==
    IF Len(contour) <= 4 THEN contour
    ELSE LET hull == ConvexHull(contour)
         IN  IF Len(hull) <= 4 THEN hull
             ELSE LET corners == approxPolyDP(hull, pick)
                  IN  IF Len(corners) > 4 THEN selectFourCorners(corners) ELSE corners

\* DocumentBounds::DocumentBounds (header, line 40); written is the set of
\* fields assigned since construction
F32Zero == [m |-> 0, e |-> 0]

FreshBounds ==
    [x |-> <<F32Zero, F32Zero, F32Zero, F32Zero>>, y |-> <<F32Zero, F32Zero, F32Zero, F32Zero>>,
     confidence |-> 0, written |-> {}]

AllFields == {"x1", "y1", "x2", "y2", "x3", "y3", "x4", "y4", "confidence"}

\* a variant that writes the corners one place on: x1, y1 from the second corner
WriteBoundsShifted(b, sorted, width, height, confidence) ==
    [x |-> <<F32Div(PX(sorted[2]), width), F32Div(PX(sorted[3]), width),
             F32Div(PX(sorted[4]), width), F32Div(PX(sorted[1]), width)>>,
     y |-> <<F32Div(PY(sorted[2]), height), F32Div(PY(sorted[3]), height),
             F32Div(PY(sorted[4]), height), F32Div(PY(sorted[1]), height)>>,
     confidence |-> confidence,
     written |-> b.written \cup AllFields]

\* lines 289-299: the nine assignments
WriteBounds(b, sorted, width, height, confidence) ==
    [x |-> <<F32Div(PX(sorted[1]), width), F32Div(PX(sorted[2]), width),
             F32Div(PX(sorted[3]), width), F32Div(PX(sorted[4]), width)>>,
     y |-> <<F32Div(PY(sorted[1]), height), F32Div(PY(sorted[2]), height),
             F32Div(PY(sorted[3]), height), F32Div(PY(sorted[4]), height)>>,
     confidence |-> confidence,
     written |-> b.written \cup AllFields]

\* a variant that assigns the confidence before the corner count is checked
ExtractFromCornersEarlyWrite(contour, corners, width, height, b, p) ==
    IF Len(corners) # 4
    THEN {[ok |-> FALSE,
           bounds |-> [b EXCEPT !.confidence = calculateDocumentScore(contour, width, height, p),
                                !.written = @ \cup {"confidence"}],
           sorted |-> <<>>, stages |-> {"corners"}]}
    ELSE {[ok |-> TRUE,
           bounds |-> WriteBounds(b, s, width, height,
                                  calculateDocumentScore(contour, width, height, p)),
           sorted |-> s,
           stages |-> {"corners", "sort", "normalize"}] : s \in sortCornerPoints(corners)}

\* lines 281-301
ExtractFromCorners(contour, corners, width, height, b, p) ==
    IF Len(corners) # 4
    THEN {[ok |-> FALSE, bounds |-> b, sorted |-> <<>>, stages |-> {"corners"}]}
    ELSE {[ok |-> TRUE,
           bounds |-> WriteBounds(b, s, width, height,
                                  calculateDocumentScore(contour, width, height, p)),
           sorted |-> s,
           stages |-> {"corners", "sort", "normalize"}] : s \in sortCornerPoints(corners)}

\* ISO_ID1_DocumentDetector::extractDocumentBounds: the possible results.
\* stages names the steps executed.
extractDocumentBounds(contour, width, height, b, p) ==
    IF Len(contour) < 4
    THEN {[ok |-> FALSE, bounds |-> b, sorted |-> <<>>, stages |-> {}]}
    ELSE UNION {ExtractFromCorners(contour, corners, width, height, b, p) :
                   corners \in {IF Len(contour) = 4 THEN contour ELSE findCornerPoints(contour, pick) :
                                   pick \in (IF Len(contour) = 4 THEN {0} ELSE {0, 1})}}

----------------------------------------------------------------------------
(* detectDocument and the detector's state machine *)

\* What detectDocument computes from one contour c of the W x H working image
\* of a cols x rows input: the filter's verdict (lines 149-171), the polygon
\* and the score of lines 188-189, the contour of lines 85-91 and the results
\* of line 93.  Each is determined by the contour, the two sizes, the adapted
\* parameters p1 and the caller's DocumentBounds b; it is computed once for a
\* contour and read where the code computes it.
MeasuredWith(c, approx, final, W, H, cols, rows, b, p1) ==
    [name |-> c.name, raw |-> c.raw, approx |-> approx, final |-> final,
     keep |-> KeepContour(c.raw, W, H, p1),
     score |-> calculateDocumentScore(approx, W, H, p1),
     results |-> extractDocumentBounds(final, cols, rows, b, p1)]

MeasuredApprox(c, approx, W, H, cols, rows, b, p1) ==
    MeasuredWith(c, approx, IF cols > target_width THEN ScaleBack(approx, cols) ELSE approx,
                 W, H, cols, rows, b, p1)

Measured(c, W, H, cols, rows, b, p1) ==
    MeasuredApprox(c, approxPolyDP(c.raw, c.pick), W, H, cols, rows, b, p1)

\* cv::findContours (line 135): the lists of at most MaxContours distinct
\* contours an edge map of the working image may hold, each with its measures
ListsOver(C) ==
    UNION {{s \in [1..n -> C] : \A i \in 1..n : \A j \in 1..n : i # j => s[i] # s[j]} :
              n \in 0..MaxContours}

ContourLists(p, b, cols, rows) ==
    UNION {UNION {ListsOver({Measured(c, ws[1], ws[2], cols, rows, b, p1) :
                                c \in Candidates(ws[1], ws[2])}) :
                     p1 \in {adaptParametersForImageSize(p, ws[1], ws[2])}} :
              ws \in {WorkingSize(cols, rows)}}

\* ISO_ID1_DocumentDetector::findDocumentContours: the contours left; the
\* function returns false when none is
findDocumentContours(cands) ==
    LET keep(c) == c.keep
    IN  SelectSeq(cands, keep)

\* a variant that also takes a contour whose score equals the best so far
BetterOrEqual(best, i, c) ==
    IF c.score >= best.score THEN [score |-> c.score, index |-> i, contour |-> c] ELSE best

\* ISO_ID1_DocumentDetector::findBestDocumentContour (lines 181-200)
Better(best, i, c) ==
    IF c.score > best.score THEN [score |-> c.score, index |-> i, contour |-> c] ELSE best

RECURSIVE BestFrom(_, _, _)
BestFrom(kept, i, best) ==
    IF i > Len(kept) THEN best
    ELSE BestFrom(kept, i + 1, Better(best, i, kept[i]))

\* a variant that accepts a best score of exactly 0.1
BestResultFrom01(best) ==
    [ok |-> best.index # 0 /\ best.score >= 10000000,
     score |-> best.score, index |-> best.index, contour |-> best.contour]

BestResult(best) ==
    [ok |-> best.index # 0 /\ best.score > 10000000,
     score |-> best.score, index |-> best.index, contour |-> best.contour]

findBestDocumentContour(kept) ==
    BestResult(BestFrom(kept, 1, [score |-> 0, index |-> 0, contour |-> <<>>]))

IdleCall ==
    [ret |-> "none", cols |-> 0, rows |-> 0, wcols |-> 0, wrows |-> 0, scaled |-> FALSE,
     stages |-> {}, found |-> 0, kept |-> 0, bestScore |-> 0,
     best |-> <<>>, final |-> <<>>, sorted |-> <<>>, used |-> <<>>]

\* lines 85-93, once the best contour is known
DetectAfterBest(p1, scaled, sc, best) ==
    {[params |-> p1, bounds |-> r.bounds,
      call |-> [sc EXCEPT !.ret = IF r.ok THEN "true" ELSE "false",
                          !.final = best.contour.final, !.sorted = r.sorted,
                          !.stages = @ \cup (IF scaled THEN {"rescale"} ELSE {}) \cup r.stages]]
     : r \in best.contour.results}

\* lines 80-93, once the contours are filtered
DetectAfterFilter(p1, b, scaled, at, best) ==
    IF ~best.ok
    THEN {[params |-> p1, bounds |-> b,
           call |-> [at EXCEPT !.ret = "false", !.bestScore = best.score,
                               !.best = IF best.index = 0 THEN <<>> ELSE best.contour.approx,
                               !.stages = @ \cup {"score"}]]}
    ELSE DetectAfterBest(p1, scaled,
                         [at EXCEPT !.bestScore = best.score, !.best = best.contour.approx,
                                    !.stages = @ \cup {"score"}],
                         best)

\* a variant that goes on to findBestDocumentContour whatever findDocumentContours returned
DetectAfterFindUnchecked(p1, b, scaled, at, kept) ==
    DetectAfterFilter(p1, b, scaled, [at EXCEPT !.kept = Len(kept)],
                      findBestDocumentContour(kept))

\* lines 76-93, once the contours are found
DetectAfterFind(p1, b, scaled, at, kept) ==
    IF at.found = 0 \/ Len(kept) = 0
    THEN {[params |-> p1, bounds |-> b, call |-> [at EXCEPT !.ret = "false"]]}
    ELSE DetectAfterFilter(p1, b, scaled, [at EXCEPT !.kept = Len(kept)],
                           findBestDocumentContour(kept))

\* lines 66-93, once the working image exists
DetectAfterResize(p1, b, cols, rows, W, H, scaled, cands) ==
    DetectAfterFind(p1, b, scaled,
                    [IdleCall EXCEPT !.cols = cols, !.rows = rows,
                                     !.wcols = W, !.wrows = H, !.scaled = scaled,
                                     !.found = Len(cands), !.used = p1,
                                     !.stages = (IF scaled THEN {"resize"} ELSE {})
                                                \cup {"adapt", "preprocess", "findContours"}],
                    findDocumentContours(cands))

\* ISO_ID1_DocumentDetector::detectDocument on a cols x rows image in which
\* cv::findContours finds cands: the possible results [params, call, bounds].
\* ret is "true" or "false", or "fault" when cv::resize raises cv::Exception
\* because a dimension of the working image rounds to 0.
detectDocument(p, b, cols, rows, cands) ==
    LET ws == WorkingSize(cols, rows)
        scaled == cols > target_width
        in == [IdleCall EXCEPT !.cols = cols, !.rows = rows]
    IN  IF cols = 0 \/ rows = 0 THEN
            {[params |-> p, bounds |-> b, call |-> [in EXCEPT !.ret = "false"]]}
        ELSE IF ws[1] = 0 \/ ws[2] = 0 THEN
            {[params |-> p, bounds |-> b,
              call |-> [in EXCEPT !.ret = "fault", !.scaled = scaled, !.stages = {"resize"}]]}
        ELSE DetectAfterResize(adaptParametersForImageSize(p, ws[1], ws[2]), b,
                               cols, rows, ws[1], ws[2], scaled, cands)

\* the images of the model in which contours can be looked for
Usable(img) == img[1] > 0 /\ img[2] > 0 /\ WorkingSize(img[1], img[2])[1] > 0
                   /\ WorkingSize(img[1], img[2])[2] > 0

\* DocumentDetector::DocumentDetector (document_detector.cpp, lines 20-27); areas
\* are in pixels, approx_epsilon_factor_ in units of 1/10000
DocumentDetectorNew ==
    [canny_threshold1_ |-> 50, canny_threshold2_ |-> 150,
     min_contour_area_ |-> 10000, max_contour_area_ |-> 500000,
     approx_epsilon_factor_ |-> 200]

\* the keys id_reader_set_config is called with: the four it knows and one it does not
NumericKeys == {"canny_threshold1", "canny_threshold2", "min_contour_area", "max_contour_area"}
ConfigKeys == NumericKeys \cup {"language"}

\* struct id_reader_context after id_reader_init (id_reader_api.cpp, lines 18-25
\* and 102-113).  config[k] is <<>> when the map has no entry for k and <<v>>
\* when it maps k to the string v.  configured[k] is the history the
\* configuration is judged by: <<>>, or <<n>> when the last id_reader_set_config
\* of k that returned ID_READER_SUCCESS parsed its value as n.
NewContext ==
    [detector |-> DocumentDetectorNew,
     config |-> [k \in ConfigKeys |-> <<>>],
     configured |-> [k \in NumericKeys |-> <<>>]]

\* id_reader_result_t as value-initialized by new id_reader_result_t()
\* (id_reader_api.cpp, line 217; id_reader.h, lines 91-98)
NewResult ==
    [document_type |-> "UNKNOWN", country |-> "UNKNOWN", bounds |-> FreshBounds,
     fields |-> "NULL", field_count |-> 0, overall_confidence |-> 0, written |-> {}]

\* no document_detector.cpp detectDocument call was made
NoDetection ==
    [ret |-> "none", bounds |-> FreshBounds, path |-> "none",
     area_confidence |-> 0, shape_confidence |-> 0, contour |-> <<>>]

\* The caller's variables when no C API call has returned since it last
\* looked.  before and result are the caller's id_reader_result_t* before and
\* after the call: "NULL", "old" (a value left from earlier) or "new" (the
\* object the call allocated, held in object).
IdleApi ==
    [fn |-> "none", ret |-> "none", null |-> "none", key |-> "", value |-> <<>>,
     format |-> 0, cols |-> 0, rows |-> 0, before |-> "NULL", result |-> "NULL",
     object |-> NewResult, detection |-> NoDetection]

NoSortRun == [pts |-> <<>>, out |-> <<>>, ref |-> <<>>]

NoCalc == [fn |-> "none", in |-> <<>>, out |-> <<>>]

Init ==
    /\ params = InitialParams
    /\ explicit = NoExplicit
    /\ call = IdleCall
    /\ bounds = FreshBounds
    /\ sortRun = NoSortRun
    /\ ctx = NewContext
    /\ api = IdleApi
    /\ calc = NoCalc

\* a caller declares a DocumentBounds and calls detectDocument with an image
Detect ==
    /\ call.ret = "none"
    /\ \E img \in Images :
         \E cands \in (IF Usable(img) THEN ContourLists(params, bounds, img[1], img[2])
                       ELSE {<<>>}) :
            \E o \in detectDocument(params, bounds, img[1], img[2], cands) :
               /\ params' = o.params
               /\ call' = o.call
               /\ bounds' = o.bounds
    /\ UNCHANGED <<explicit, sortRun, ctx, api, calc>>

\* the caller is done with the result; the next call gets a newly constructed DocumentBounds
NewBounds ==
    /\ call.ret # "none"
    /\ call' = IdleCall
    /\ bounds' = FreshBounds
    /\ UNCHANGED <<params, explicit, sortRun, ctx, api, calc>>

\* ISO_ID1_DocumentDetector::setCannyThresholds
setCannyThresholds ==
    /\ call.ret = "none"
    /\ \E t \in CannyChoices :
         /\ params' = [params EXCEPT !.canny1 = t[1], !.canny2 = t[2]]
         /\ explicit' = [explicit EXCEPT !.canny = t]
    /\ UNCHANGED <<call, bounds, sortRun, ctx, api, calc>>

\* ISO_ID1_DocumentDetector::setAreaRatios
setAreaRatios ==
    /\ call.ret = "none"
    /\ \E t \in AreaChoices :
         /\ params' = [params EXCEPT !.minArea = t[1], !.maxArea = t[2]]
         /\ explicit' = [explicit EXCEPT !.area = t]
    /\ UNCHANGED <<call, bounds, sortRun, ctx, api, calc>>

\* ISO_ID1_DocumentDetector::setTargetAspectRatio
setTargetAspectRatio ==
    /\ call.ret = "none"
    /\ \E t \in AspectChoices :
         /\ params' = [params EXCEPT !.target = t[1], !.tol = t[2]]
         /\ explicit' = [explicit EXCEPT !.aspect = t]
    /\ UNCHANGED <<call, bounds, sortRun, ctx, api, calc>>

Next ==
    \/ Detect
    \/ NewBounds
    \/ setCannyThresholds
    \/ setAreaRatios
    \/ setTargetAspectRatio

Spec == Init /\ [][Next]_vars

----------------------------------------------------------------------------
(* Two detectors on the same image: one that has served calls before, one   *)
(* newly constructed with the same target aspect ratio                      *)

\* a detector as constructed, then given the target aspect ratio of p
ConstructedLike(p) == [InitialParams EXCEPT !.target = p.target]

\* what a caller sees of the results of a call, and the parameters in effect
Outcomes(results) ==
    {[ret |-> o.call.ret, bounds |-> o.bounds, used |-> o.call.used] : o \in results}

\* the contours of one edge map as each of the detectors p and q measures them
MeasuredByBoth(p, q, cols, rows) ==
    UNION {{[first |-> Measured(c, ws[1], ws[2], cols, rows, FreshBounds,
                                adaptParametersForImageSize(p, ws[1], ws[2])),
             second |-> Measured(c, ws[1], ws[2], cols, rows, FreshBounds,
                                 adaptParametersForImageSize(q, ws[1], ws[2]))] :
               c \in Candidates(ws[1], ws[2])} : ws \in {WorkingSize(cols, rows)}}

RECURSIVE FirstOf(_, _)
FirstOf(pairs, i) ==
    IF i > Len(pairs) THEN <<>> ELSE <<pairs[i].first>> \o FirstOf(pairs, i + 1)

RECURSIVE SecondOf(_, _)
SecondOf(pairs, i) ==
    IF i > Len(pairs) THEN <<>> ELSE <<pairs[i].second>> \o SecondOf(pairs, i + 1)

\* both detectors are called with the same image and a new DocumentBounds each
DetectOnBoth ==
    /\ calc.fn = "none"
    /\ \E img \in Images :
       \E pairs \in (IF Usable(img)
                     THEN ListsOver(MeasuredByBoth(params, ConstructedLike(params), img[1], img[2]))
                     ELSE {<<>>}) :
       \E o \in detectDocument(params, FreshBounds, img[1], img[2], FirstOf(pairs, 1)) :
          /\ params' = o.params
          /\ calc' = [fn |-> "detectDocument",
                      in |-> [cols |-> img[1], rows |-> img[2], before |-> params],
                      out |-> [first |-> Outcomes(detectDocument(params, FreshBounds, img[1],
                                                                 img[2], FirstOf(pairs, 1))),
                               second |-> Outcomes(detectDocument(ConstructedLike(params),
                                                                  FreshBounds, img[1], img[2],
                                                                  SecondOf(pairs, 1)))]]
    /\ UNCHANGED <<explicit, call, bounds, sortRun, ctx, api>>

\* the callers are done with the results
ReturnFromBoth ==
    /\ calc.fn = "detectDocument"
    /\ calc' = NoCalc
    /\ UNCHANGED <<params, explicit, call, bounds, sortRun, ctx, api>>

NextHistory ==
    \/ DetectOnBoth
    \/ ReturnFromBoth
    \/ (calc.fn = "none" /\ setTargetAspectRatio)

SpecHistory == Init /\ [][NextHistory]_vars

----------------------------------------------------------------------------
(* sortCornerPoints on its own: four distinct points of a small grid *)

GridPoints == (0..MaxCoord) \X (0..MaxCoord)

\* the sets of four distinct grid points, each listed in lexicographic order
Quads ==
    {q \in GridPoints \X GridPoints \X GridPoints \X GridPoints :
        LexLess(q[1], q[2]) /\ LexLess(q[2], q[3]) /\ LexLess(q[3], q[4])}

Permuted(points, f) == <<points[f[1]], points[f[2]], points[f[3]], points[f[4]]>>

InitSort ==
    /\ params = InitialParams
    /\ explicit = NoExplicit
    /\ call = IdleCall
    /\ bounds = FreshBounds
    /\ \E q \in Quads : sortRun = [pts |-> q, out |-> <<>>, ref |-> <<>>]
    /\ ctx = NewContext
    /\ api = IdleApi
    /\ calc = NoCalc

\* sortCornerPoints is applied to the points in some order
SortCorners ==
    /\ sortRun.out = <<>>
    /\ \E f \in Permutations4 : \E r \in sortCornerPoints(Permuted(sortRun.pts, f)) :
          sortRun' = [sortRun EXCEPT !.out = r]
    /\ UNCHANGED <<params, explicit, call, bounds, ctx, api, calc>>

\* sortCornerPoints is applied to the same points in the listed order
SortReference ==
    /\ sortRun.out # <<>>
    /\ sortRun.ref = <<>>
    /\ \E r \in sortCornerPoints(sortRun.pts) : sortRun' = [sortRun EXCEPT !.ref = r]
    /\ UNCHANGED <<params, explicit, call, bounds, ctx, api, calc>>

NextSort ==
    \/ SortCorners
    \/ SortReference

SpecSort == InitSort /\ [][NextSort]_vars

----------------------------------------------------------------------------
(* adaptParametersForImageSize on its own: working images of any size *)

\* widths and heights of the working images: each side of each limit of the
\* resolution table, and sides in and about the ratio 2.5
Dimensions == {1, 2, 5, 399, 400, 799, 800, 1000, 1499, 1500, 2000, 3749, 3750, 3751, 4000}

InitAdapt ==
    /\ params = InitialParams
    /\ explicit = NoExplicit
    /\ call = IdleCall
    /\ bounds = FreshBounds
    /\ sortRun = NoSortRun
    /\ ctx = NewContext
    /\ api = IdleApi
    /\ \E width \in Dimensions : \E height \in Dimensions :
          calc = [NoCalc EXCEPT !.in = <<width, height>>]

\* line 67: adaptParametersForImageSize(working_image.size()) on the detector's fields
AdaptParameters ==
    /\ calc.fn = "none"
    /\ params' = adaptParametersForImageSize(params, calc.in[1], calc.in[2])
    /\ calc' = [calc EXCEPT !.fn = "adaptParametersForImageSize", !.out = params]
    /\ UNCHANGED <<explicit, call, bounds, sortRun, ctx, api>>

\* the next working image
NextWorkingImage ==
    /\ calc.fn # "none"
    /\ \E width \in Dimensions : \E height \in Dimensions :
          calc' = [NoCalc EXCEPT !.in = <<width, height>>]
    /\ UNCHANGED <<params, explicit, call, bounds, sortRun, ctx, api>>

NextAdapt ==
    \/ AdaptParameters
    \/ NextWorkingImage

SpecAdapt == InitAdapt /\ [][NextAdapt]_vars

----------------------------------------------------------------------------
(* calculateDocumentScore on its own: the measures of one contour *)

\* the working image of the contours scored
ScoreFrame == <<400, 400>>

\* twice the contour's area: each side of the ratios 0.002, 0.01, 0.70, 0.85
\* and 0.99 of the frame, and the largest area a contour in the frame has
AreaCases ==
    {0, 639, 640, 641, 3199, 3200, 3201, 100000, 223999, 224000, 224001,
     271999, 272000, 272001, 316799, 316800, 316801, 318402}

\* width and height of the contour's bounding rectangle
AspectCases ==
    {<<100, 100>>, <<142, 100>>, <<158, 100>>, <<159, 100>>, <<222, 100>>, <<223, 100>>,
     <<95, 100>>, <<96, 100>>, <<400, 1>>, <<1, 400>>}

\* the number of vertices of the simplified contour
VertexCases == {3, 4, 5, 8, 9, 12, 13}

\* the centre of the enclosing circle, in doubled coordinates
CentreCases == {<<400, 400>>, <<0, 0>>, <<1, 1>>, <<798, 798>>, <<400, 0>>, <<120, 160>>}

\* the parameters at line 189: adapted to the frame, the target as constructed
\* or as set by setTargetAspectRatio
ScoreParams ==
    {adaptParametersForImageSize([InitialParams EXCEPT !.target = t],
                                 ScoreFrame[1], ScoreFrame[2]) :
        t \in {InitialParams.target} \cup {c[1] : c \in AspectChoices}}

InitScore ==
    /\ params = InitialParams
    /\ explicit = NoExplicit
    /\ call = IdleCall
    /\ bounds = FreshBounds
    /\ sortRun = NoSortRun
    /\ ctx = NewContext
    /\ api = IdleApi
    /\ \E area2 \in AreaCases : \E br \in AspectCases : \E n \in VertexCases :
       \E ctr \in CentreCases : \E p \in ScoreParams :
          calc = [NoCalc EXCEPT !.in = [area2 |-> area2, bw |-> br[1], bh |-> br[2], n |-> n,
                                        ctr |-> ctr, p |-> p]]

\* line 189: calculateDocumentScore(approx, image_size)
ScoreCandidate ==
    /\ calc.fn = "none"
    /\ calc' = [calc EXCEPT
                  !.fn = "calculateDocumentScore",
                  !.out = [parts |-> SubScores(calc.in.area2, calc.in.bw, calc.in.bh, calc.in.n,
                                               calc.in.ctr, ScoreFrame[1], ScoreFrame[2],
                                               calc.in.p),
                           total |-> ScoreOfMeasures(calc.in.area2, calc.in.bw, calc.in.bh,
                                                     calc.in.n, calc.in.ctr, ScoreFrame[1],
                                                     ScoreFrame[2], calc.in.p)]]
    /\ UNCHANGED <<params, explicit, call, bounds, sortRun, ctx, api>>

NextScore == ScoreCandidate

SpecScore == InitScore /\ [][NextScore]_vars

----------------------------------------------------------------------------
(* findBestDocumentContour on its own: lists of filtered contours *)

\* The simplified contours of the lists, by their measures in the ScoreFrame:
\* a triangle; a card and a second contour of the same measures; a card off
\* the centre; an octagon; and three small 13-sided contours a quarter of the
\* diagonal from the centre, whose scores are 0.1 and just above and below it.
BestCases ==
    {[name |-> "triangle", area2 |-> 20000, bw |-> 200, bh |-> 100, n |-> 3, ctr |-> <<400, 400>>],
     [name |-> "card", area2 |-> 31800, bw |-> 159, bh |-> 100, n |-> 4, ctr |-> <<400, 400>>],
     [name |-> "card2", area2 |-> 31800, bw |-> 159, bh |-> 100, n |-> 4, ctr |-> <<400, 400>>],
     [name |-> "offcentre", area2 |-> 31800, bw |-> 159, bh |-> 100, n |-> 4, ctr |-> <<300, 400>>],
     [name |-> "octagon", area2 |-> 30000, bw |-> 159, bh |-> 100, n |-> 8, ctr |-> <<400, 400>>],
     [name |-> "speck", area2 |-> 300, bw |-> 15, bh |-> 16, n |-> 13, ctr |-> <<200, 200>>],
     [name |-> "speckIn", area2 |-> 300, bw |-> 15, bh |-> 16, n |-> 13, ctr |-> <<202, 200>>],
     [name |-> "speckOut", area2 |-> 300, bw |-> 15, bh |-> 16, n |-> 13, ctr |-> <<198, 200>>]}

\* lines 186-191: each contour with its approximation and the score of that
ScoredCases ==
    {[name |-> m.name, approx |-> m,
      score |-> ScoreOfMeasures(m.area2, m.bw, m.bh, m.n, m.ctr, ScoreFrame[1], ScoreFrame[2],
                                adaptParametersForImageSize(InitialParams, ScoreFrame[1],
                                                            ScoreFrame[2]))] :
        m \in BestCases}

InitBest ==
    /\ params = InitialParams
    /\ explicit = NoExplicit
    /\ call = IdleCall
    /\ bounds = FreshBounds
    /\ sortRun = NoSortRun
    /\ ctx = NewContext
    /\ api = IdleApi
    /\ \E kept \in ListsOver(ScoredCases) : calc = [NoCalc EXCEPT !.in = kept]

\* line 80: findBestDocumentContour(contours, working_image.size(), best_contour)
SelectBest ==
    /\ calc.fn = "none"
    /\ calc' = [calc EXCEPT !.fn = "findBestDocumentContour",
                            !.out = findBestDocumentContour(calc.in)]
    /\ UNCHANGED <<params, explicit, call, bounds, sortRun, ctx, api>>

NextBest == SelectBest

SpecBest == InitBest /\ [][NextBest]_vars

----------------------------------------------------------------------------
(* findDocumentContours on its own: the area and the bounding rectangle of  *)
(* each contour found in a working image                                    *)

\* working images: narrower than, at, between and beyond the aspect ratios
\* 1.2 and 2.2, and one wide frame
FilterFrames ==
    {<<119, 100>>, <<120, 100>>, <<220, 100>>, <<221, 100>>, <<300, 100>>,
     <<400, 300>>, <<400, 400>>}

\* cv::boundingRect of a contour that touches all four borders, one that stops
\* a pixel from the left border and one that stops a pixel from the bottom
FilterRects(W, H) ==
    {RectOf(0, 0, W - 1, H - 1), RectOf(1, 0, W - 1, H - 1), RectOf(0, 0, W - 1, H - 2)}

\* twice cv::contourArea: each side of the two limits of lines 142-143, and a
\* value between them; a contour is no larger than its bounding rectangle
FilterAreas(W, H, p, br) ==
    LET lo == (p.minArea * (W * H)) \div 5000
        hi == (p.maxArea * (W * H)) \div 5000
    IN  {a \in {lo - 1, lo, lo + 1, (lo + hi) \div 2, hi - 1, hi, hi + 1} :
            a <= 2 * ((br.width - 1) * (br.height - 1))}

FilterCases(W, H, p) ==
    UNION {{[area2 |-> a, br |-> br, keep |-> KeepMeasured(a, br, W, H, p)] :
               a \in FilterAreas(W, H, p, br)} : br \in FilterRects(W, H)}

InitFilter ==
    /\ params = InitialParams
    /\ explicit = NoExplicit
    /\ call = IdleCall
    /\ bounds = FreshBounds
    /\ sortRun = NoSortRun
    /\ ctx = NewContext
    /\ api = IdleApi
    /\ \E f \in FilterFrames :
          \E p \in {adaptParametersForImageSize(InitialParams, f[1], f[2])} :
             \E cands \in ListsOver(FilterCases(f[1], f[2], p)) :
                calc = [NoCalc EXCEPT !.in = [cols |-> f[1], rows |-> f[2], p |-> p,
                                              contours |-> cands]]

\* lines 137-175: false for an empty list, else the list filtered and whether
\* anything is left
FilterContours ==
    /\ calc.fn = "none"
    /\ calc' = [calc EXCEPT
                  !.fn = "findDocumentContours",
                  !.out = IF Len(calc.in.contours) = 0
                          THEN [ret |-> FALSE, contours |-> calc.in.contours]
                          ELSE [ret |-> Len(findDocumentContours(calc.in.contours)) # 0,
                                contours |-> findDocumentContours(calc.in.contours)]]
    /\ UNCHANGED <<params, explicit, call, bounds, sortRun, ctx, api>>

NextFilter == FilterContours

SpecFilter == InitFilter /\ [][NextFilter]_vars

----------------------------------------------------------------------------
(* extractDocumentBounds on its own: winning contours of 3 to 8 vertices    *)

\* the image the contours lie in
CornerFrame == <<16, 16>>

\* a triangle; a square and a dart of 4 vertices; 5 vertices whose hull is a
\* triangle and whose hull is a square; a convex pentagon; a convex hexagon
\* whose leftmost vertex is its topmost; a convex octagon
CornerShapes ==
    {<<<<0, 0>>, <<4, 0>>, <<0, 4>>>>,
     <<<<0, 0>>, <<4, 0>>, <<4, 4>>, <<0, 4>>>>,
     <<<<0, 0>>, <<4, 0>>, <<1, 1>>, <<0, 4>>>>,
     <<<<0, 0>>, <<4, 0>>, <<2, 1>>, <<0, 4>>, <<1, 1>>>>,
     <<<<0, 0>>, <<4, 0>>, <<4, 4>>, <<2, 3>>, <<0, 4>>>>,
     <<<<2, 0>>, <<4, 2>>, <<3, 4>>, <<1, 4>>, <<0, 2>>>>,
     <<<<0, 0>>, <<2, 0>>, <<4, 2>>, <<4, 4>>, <<2, 4>>, <<0, 2>>>>,
     <<<<1, 0>>, <<3, 0>>, <<4, 1>>, <<4, 3>>, <<3, 4>>, <<1, 4>>, <<0, 3>>, <<0, 1>>>>}

\* the contour c started r vertices later and moved by d
RECURSIVE MovedFrom(_, _, _)
MovedFrom(c, i, d) ==
    IF i > Len(c) THEN <<>>
    ELSE <<<<PX(c[i]) + d[1], PY(c[i]) + d[2]>>>> \o MovedFrom(c, i + 1, d)

Placed(c, r, d) == MovedFrom(SubSeq(c, r + 1, Len(c)) \o SubSeq(c, 1, r), 1, d)

CornerCases ==
    UNION {{Placed(c, r, d) : r \in 0..(Len(c) - 1), d \in (0..MaxCoord) \X (0..MaxCoord)} :
              c \in CornerShapes}

InitCorners ==
    /\ params = InitialParams
    /\ explicit = NoExplicit
    /\ call = IdleCall
    /\ bounds = FreshBounds
    /\ sortRun = NoSortRun
    /\ ctx = NewContext
    /\ api = IdleApi
    /\ \E c \in CornerCases : \E pick \in {0, 1} :
          calc = [NoCalc EXCEPT !.in = [contour |-> c, pick |-> pick]]

\* lines 269-301: corners is the value of the local of line 273, empty when
\* the function returns before it
ExtractBounds ==
    /\ calc.fn = "none"
    /\ \E p \in {adaptParametersForImageSize(InitialParams, CornerFrame[1], CornerFrame[2])} :
       \E corners \in {IF Len(calc.in.contour) < 4 THEN <<>>
                       ELSE IF Len(calc.in.contour) = 4 THEN calc.in.contour
                       ELSE findCornerPoints(calc.in.contour, calc.in.pick)} :
       \E r \in (IF Len(calc.in.contour) < 4
                 THEN extractDocumentBounds(calc.in.contour, CornerFrame[1], CornerFrame[2],
                                            FreshBounds, p)
                 ELSE ExtractFromCorners(calc.in.contour, corners, CornerFrame[1],
                                         CornerFrame[2], FreshBounds, p)) :
          calc' = [calc EXCEPT !.fn = "extractDocumentBounds",
                               !.out = [corners |-> corners, ok |-> r.ok, sorted |-> r.sorted,
                                        bounds |-> r.bounds]]
    /\ UNCHANGED <<params, explicit, call, bounds, sortRun, ctx, api>>

NextCorners == ExtractBounds

SpecCorners == InitCorners /\ [][NextCorners]_vars

----------------------------------------------------------------------------
(* The edge thresholds of preprocessImageForID1Document (lines 117-123), on *)
(* the statistics of the blurred image taken to whole grey levels           *)

\* cv::meanStdDev of an 8-bit image: a mean in 0..255 and a standard deviation
\* that pixels in 0..255 with that mean can have
IntensityStatistics ==
    {st \in (0..255) \X (0..127) : st[2] * st[2] <= st[1] * (255 - st[1])}

\* lines 120-121
DynamicThresholds(mean, stddev) ==
    [low |-> Max(10, mean - stddev), high |-> Min(200, mean + stddev)]

InitThresholds ==
    /\ params = InitialParams
    /\ explicit = NoExplicit
    /\ call = IdleCall
    /\ bounds = FreshBounds
    /\ sortRun = NoSortRun
    /\ ctx = NewContext
    /\ api = IdleApi
    /\ \E st \in IntensityStatistics :
          calc = [NoCalc EXCEPT !.in = [mean |-> st[1], stddev |-> st[2]]]

\* lines 118-123: the two thresholds handed to cv::Canny
DeriveThresholds ==
    /\ calc.fn = "none"
    /\ calc' = [calc EXCEPT !.fn = "preprocessImageForID1Document",
                            !.out = DynamicThresholds(calc.in.mean, calc.in.stddev)]
    /\ UNCHANGED <<params, explicit, call, bounds, sortRun, ctx, api>>

NextThresholds == DeriveThresholds

SpecThresholds == InitThresholds /\ [][NextThresholds]_vars

----------------------------------------------------------------------------
(* The aspect sub-score on its own, in exact arithmetic: a number is a      *)
(* fraction <<n, d>> with d > 0                                             *)

RatSub(x, y) == <<x[1] * y[2] - y[1] * x[2], x[2] * y[2]>>
RatMul(x, y) == <<x[1] * y[1], x[2] * y[2]>>
\* x / y for y > 0
RatDiv(x, y) == <<x[1] * y[2], x[2] * y[1]>>
RatAbs(x) == <<Abs(x[1]), x[2]>>

\* the sign of x - y
RatCmp(x, y) ==
    IF x[1] < 0 /\ y[1] < 0 THEN CmpFrac(-y[1], y[2], -x[1], x[2])
    ELSE IF x[1] < 0 THEN -1
    ELSE IF y[1] < 0 THEN 1
    ELSE CmpFrac(x[1], x[2], y[1], y[2])

\* a variant without the test of the tolerance
AspectScoreUnguarded(a, t, tol) ==
    RatSub(<<1, 1>>, RatDiv(RatDiv(RatAbs(RatSub(a, t)), t), tol))

\* lines 232-239 for the aspect ratio a, the target t and the tolerance tol
AspectScoreExact(a, t, tol) ==
    LET aspect_diff == RatDiv(RatAbs(RatSub(a, t)), t)
    IN  IF RatCmp(aspect_diff, tol) <= 0
        THEN RatSub(<<1, 1>>, RatDiv(aspect_diff, tol))
        ELSE <<0, 1>>

\* bounds.width / bounds.height of small bounding rectangles
RatioCases == {<<w, h>> : w \in 1..8, h \in 1..6}

\* target_aspect_ratio_: 1.586 of the constructor, 1.6 and 1.42 through
\* setTargetAspectRatio
TargetCases == {<<793, 500>>, <<8, 5>>, <<71, 50>>}

\* aspect_ratio_tolerance_: 0.3, 0.35, 0.4 and 0.5 of adaptParametersForImageSize,
\* 0.25 through setTargetAspectRatio
ToleranceCases == {<<1, 4>>, <<3, 10>>, <<7, 20>>, <<2, 5>>, <<1, 2>>}

InitAspect ==
    /\ params = InitialParams
    /\ explicit = NoExplicit
    /\ call = IdleCall
    /\ bounds = FreshBounds
    /\ sortRun = NoSortRun
    /\ ctx = NewContext
    /\ api = IdleApi
    /\ \E a \in RatioCases : \E t \in TargetCases : \E tol \in ToleranceCases :
          calc = [NoCalc EXCEPT !.in = [a |-> a, t |-> t, tol |-> tol]]

\* lines 231-239 of calculateDocumentScore
ScoreAspect ==
    /\ calc.fn = "none"
    /\ calc' = [calc EXCEPT !.fn = "aspect_score",
                            !.out = AspectScoreExact(calc.in.a, calc.in.t, calc.in.tol)]
    /\ UNCHANGED <<params, explicit, call, bounds, sortRun, ctx, api>>

NextAspect == ScoreAspect

SpecAspect == InitAspect /\ [][NextAspect]_vars

----------------------------------------------------------------------------
(* DocumentDetector (src/src/preprocessing/document_detection/document_detector.cpp), *)
(* the detector the C API uses.  A confidence is an integer in units of     *)
(* 1e-8 and its two parts are integers in units of 1e-6.                    *)

\* lines 200-208: the quadrant of a point about the centroid
Quadrant(point, centroid) ==
    IF PX(point) >= PX(centroid) /\ PY(point) < PY(centroid) THEN 0
    ELSE IF PX(point) < PX(centroid) /\ PY(point) < PY(centroid) THEN 1
    ELSE IF PX(point) < PX(centroid) /\ PY(point) >= PY(centroid) THEN 2
    ELSE 3

\* lines 210-213: the arrangements std::sort may leave, ascending by quadrant
\* (the order of points of the same quadrant is not specified)
SortedByQuadrant(points, centroid) ==
    {Permuted(points, f) : f \in {g \in Permutations4 :
        \A i \in 1..3 : Quadrant(points[g[i]], centroid) <= Quadrant(points[g[i + 1]], centroid)}}

\* a variant that fills the last two places from the same element
DocumentDetector_sortCornerPointsRepeating(points) ==
    IF Len(points) # 4 THEN {points}
    ELSE {<<pq[2], pq[1], pq[4], pq[4]>> : pq \in SortedByQuadrant(points, Centroid(points))}

\* DocumentDetector::sortCornerPoints: the possible results
DocumentDetector_sortCornerPoints(points) ==
    IF Len(points) # 4 THEN {points}
    ELSE {<<pq[2], pq[1], pq[4], pq[3]>> : pq \in SortedByQuadrant(points, Centroid(points))}

\* a variant without the test of the area ratio
AreaConfidenceUnguarded(area2, image_area) ==
    1000000 - RatioMicro(Abs(4 * image_area - 5 * area2), 4 * image_area)

\* lines 229-237: area_confidence for a contour of twice the area area2;
\* |0.4 - r| / 0.4 is |4 I - 5 area2| / (4 I) for r = area2 / (2 I)
AreaConfidence(area2, image_area) ==
    IF CmpFrac(area2, 2 * image_area, 1, 10) >= 0 /\ CmpFrac(area2, 2 * image_area, 8, 10) <= 0
    THEN 1000000 - RatioMicro(Abs(4 * image_area - 5 * area2), 4 * image_area)
    ELSE 0

\* lines 244-251: shape_confidence for an approximation of n vertices
ShapeConfidence(n) ==
    IF n = 4 THEN 1000000
    ELSE IF n >= 3 /\ n <= 6 THEN 700000
    ELSE 300000

\* DocumentDetector::calculateConfidence; pick is the outcome of line 242
DocumentDetector_calculateConfidence(contour, width, height, pick) ==
    IF Len(contour) = 0
    THEN [area_confidence |-> 0, shape_confidence |-> 0, confidence |-> 0]
    ELSE LET a == AreaConfidence(ContourArea2(contour), width * height)
             sh == ShapeConfidence(Len(approxPolyDP(contour, pick)))
         IN  [area_confidence |-> a, shape_confidence |-> sh, confidence |-> 50 * (a + sh)]

\* lines 164-173: the corners of the bounding rectangle
RectCorners(r) ==
    <<<<r.x, r.y>>, <<r.x + r.width, r.y>>,
      <<r.x + r.width, r.y + r.height>>, <<r.x, r.y + r.height>>>>

\* lines 154-161 and 166-173, line 177: the nine assignments
DocumentDetector_writeBounds(b, corners, width, height, confidence) ==
    [x |-> <<F32Div(PX(corners[1]), width), F32Div(PX(corners[2]), width),
             F32Div(PX(corners[3]), width), F32Div(PX(corners[4]), width)>>,
     y |-> <<F32Div(PY(corners[1]), height), F32Div(PY(corners[2]), height),
             F32Div(PY(corners[3]), height), F32Div(PY(corners[4]), height)>>,
     confidence |-> confidence,
     written |-> b.written \cup AllFields]

\* DocumentDetector::extractDocumentBounds: the possible results
DocumentDetector_extractDocumentBounds(contour, width, height, b) ==
    IF Len(contour) < 4
    THEN {[NoDetection EXCEPT !.ret = "false", !.bounds = b, !.contour = contour]}
    ELSE {[ret |-> "true",
           bounds |-> DocumentDetector_writeBounds(b, corners, width, height, cf.confidence),
           path |-> IF Len(contour) = 4 THEN "four" ELSE "rect",
           area_confidence |-> cf.area_confidence,
           shape_confidence |-> cf.shape_confidence,
           contour |-> contour] :
             corners \in (IF Len(contour) = 4 THEN DocumentDetector_sortCornerPoints(contour)
                          ELSE {RectCorners(BoundingRect(contour))}),
             cf \in {DocumentDetector_calculateConfidence(contour, width, height, pick) :
                        pick \in {0, 1}}}

\* What detectDocument computes from one contour of a width x height image:
\* its area (lines 91, 125), its approximation (lines 108-109, 134-135), the
\* area of that (line 113) and the results of line 51 when it is the best
DocumentDetector_measured(c, width, height) ==
    [name |-> c.name, raw |-> c.raw, area2 |-> ContourArea2(c.raw),
     approx |-> approxPolyDP(c.raw, c.pick),
     approx_area2 |-> ContourArea2(approxPolyDP(c.raw, c.pick)),
     results |-> DocumentDetector_extractDocumentBounds(approxPolyDP(c.raw, c.pick),
                                                        width, height, FreshBounds)]

\* lines 88-95: the contours left by the filter on the area
DocumentDetector_findContours(d, cands) ==
    LET keep(c) == ~(c.area2 < 2 * d.min_contour_area_ \/ c.area2 > 2 * d.max_contour_area_)
    IN  SelectSeq(cands, keep)

\* lines 105-120: the largest approximation of four vertices, the first of equals
RECURSIVE LargestQuadFrom(_, _, _)
LargestQuadFrom(contours, i, best) ==
    IF i > Len(contours) THEN best
    ELSE LargestQuadFrom(contours, i + 1,
            IF Len(contours[i].approx) = 4 /\ contours[i].approx_area2 > best.max_area2
            THEN [index |-> i, max_area2 |-> contours[i].approx_area2]
            ELSE best)

\* lines 124-130: the largest contour, the first of equals
RECURSIVE LargestFrom(_, _, _)
LargestFrom(contours, i, best) ==
    IF i > Len(contours) THEN best
    ELSE LargestFrom(contours, i + 1,
            IF contours[i].area2 > best.max_area2
            THEN [index |-> i, max_area2 |-> contours[i].area2]
            ELSE best)

\* DocumentDetector::findBestDocumentContour: the index of the best contour, 0 for none
DocumentDetector_findBestDocumentContour(contours) ==
    LET quad == LargestQuadFrom(contours, 1, [index |-> 0, max_area2 |-> 0])
    IN  IF quad.index # 0 THEN quad.index
        ELSE LargestFrom(contours, 1, quad).index

\* DocumentDetector::detectDocument (lines 31-52) on a cols x rows image in
\* which cv::findContours finds cands: the possible results
DocumentDetector_detectDocument(d, cols, rows, cands) ==
    LET failed == {[NoDetection EXCEPT !.ret = "false"]}
        kept == DocumentDetector_findContours(d, cands)
        best == DocumentDetector_findBestDocumentContour(kept)
    IN  IF cols = 0 \/ rows = 0 THEN failed
        ELSE IF Len(cands) = 0 \/ Len(kept) = 0 THEN failed
        ELSE IF best = 0 THEN failed
        ELSE kept[best].results

----------------------------------------------------------------------------
(* sortCornerPoints of both detectors on any four points of the grid, in    *)
(* any order, equal points included                                         *)

PointLists == GridPoints \X GridPoints \X GridPoints \X GridPoints

InitOrder ==
    /\ params = InitialParams
    /\ explicit = NoExplicit
    /\ call = IdleCall
    /\ bounds = FreshBounds
    /\ sortRun = NoSortRun
    /\ ctx = NewContext
    /\ api = IdleApi
    /\ \E points \in PointLists : calc = [NoCalc EXCEPT !.in = points]

\* ISO_ID1_DocumentDetector::sortCornerPoints (iso_id1_document_detector.cpp, lines 361-410)
OrderByAngle ==
    /\ calc.fn = "none"
    /\ \E r \in sortCornerPoints(calc.in) :
          calc' = [calc EXCEPT !.fn = "ISO_ID1_DocumentDetector::sortCornerPoints", !.out = r]
    /\ UNCHANGED <<params, explicit, call, bounds, sortRun, ctx, api>>

\* DocumentDetector::sortCornerPoints (document_detector.cpp, lines 182-222)
OrderByQuadrant ==
    /\ calc.fn = "none"
    /\ \E r \in DocumentDetector_sortCornerPoints(calc.in) :
          calc' = [calc EXCEPT !.fn = "DocumentDetector::sortCornerPoints", !.out = r]
    /\ UNCHANGED <<params, explicit, call, bounds, sortRun, ctx, api>>

NextOrder ==
    \/ OrderByAngle
    \/ OrderByQuadrant

SpecOrder == InitOrder /\ [][NextOrder]_vars

----------------------------------------------------------------------------
(* The C API: id_reader_set_config (src/src/api/id_reader_api.cpp) *)

\* A C string is the sequence of its characters.

DigitValue ==
    [ch \in {"0", "1", "2", "3", "4", "5", "6", "7", "8", "9"} |->
        CASE ch = "0" -> 0 [] ch = "1" -> 1 [] ch = "2" -> 2 [] ch = "3" -> 3 [] ch = "4" -> 4
          [] ch = "5" -> 5 [] ch = "6" -> 6 [] ch = "7" -> 7 [] ch = "8" -> 8 [] ch = "9" -> 9]

\* the decimal digits at the head of s from position i on: their value and
\* how many characters were read
RECURSIVE StodFrom(_, _, _)
StodFrom(s, i, acc) ==
    IF i > Len(s) \/ s[i] \notin DOMAIN DigitValue
    THEN [value |-> acc, read |-> i - 1]
    ELSE StodFrom(s, i + 1, 10 * acc + DigitValue[s[i]])

\* std::stod on a string of digits and letters other than the ones that begin
\* "inf", "nan", an exponent or a hexadecimal prefix: the number its leading
\* digits spell; std::invalid_argument is thrown when it has none
stod(s) ==
    LET r == StodFrom(s, 1, 0)
    IN  IF r.read = 0 THEN [thrown |-> TRUE, value |-> 0]
        ELSE [thrown |-> FALSE, value |-> r.value]

\* DocumentDetector::setCannyThresholds (document_detector.cpp, lines 256-259)
DocumentDetector_setCannyThresholds(d, threshold1, threshold2) ==
    [d EXCEPT !.canny_threshold1_ = threshold1, !.canny_threshold2_ = threshold2]

\* DocumentDetector::setContourAreaRange (document_detector.cpp, lines 261-264)
DocumentDetector_setContourAreaRange(d, min_area, max_area) ==
    [d EXCEPT !.min_contour_area_ = min_area, !.max_contour_area_ = max_area]

\* lines 127-139: what the key makes of the detector once the value is parsed
ApplyConfig(d, key, n) ==
    IF key = "canny_threshold1" THEN DocumentDetector_setCannyThresholds(d, n, 150)
    ELSE IF key = "canny_threshold2" THEN DocumentDetector_setCannyThresholds(d, 50, n)
    ELSE IF key = "min_contour_area" THEN DocumentDetector_setContourAreaRange(d, n, 500000)
    ELSE IF key = "max_contour_area" THEN DocumentDetector_setContourAreaRange(d, 10000, n)
    ELSE d

\* id_reader_set_config (lines 119-146) on context c; null names the argument
\* that is a null pointer, or is "none".  The result is the return value and
\* the context left behind.
id_reader_set_config(c, null, key, value) ==
    IF null # "none" THEN [ret |-> "INVALID_INPUT", ctx |-> c]
    ELSE LET stored == [c EXCEPT !.config[key] = <<value>>]
         IN  IF key \notin NumericKeys THEN [ret |-> "SUCCESS", ctx |-> stored]
             ELSE LET n == stod(value)
                  IN  IF n.thrown THEN [ret |-> "PROCESSING_FAILED", ctx |-> stored]
                      ELSE [ret |-> "SUCCESS",
                            ctx |-> [stored EXCEPT !.detector = ApplyConfig(@, key, n.value)]]

\* id_reader_get_config (lines 148-165) with non-null arguments and a buffer
\* of value_size characters: the return value and what the buffer then holds
\* (<<>> when it is not written)
id_reader_get_config(c, key, value_size) ==
    IF value_size = 0 THEN [ret |-> "INVALID_INPUT", value |-> <<>>]
    ELSE IF c.config[key] = <<>> THEN [ret |-> "INVALID_INPUT", value |-> <<>>]
    ELSE IF Len(c.config[key][1]) >= value_size THEN [ret |-> "INVALID_INPUT", value |-> <<>>]
    ELSE [ret |-> "SUCCESS", value |-> c.config[key]]

\* the calls of id_reader_set_config in the model: those of
\* DetectionTestFramework::initialize, another area, a value that is no number and a key that names no parameter
SetConfigCalls ==
    {<<"canny_threshold1", <<"5", "0">>>>,
     <<"canny_threshold1", <<"a", "b", "c">>>>,
     <<"canny_threshold2", <<"1", "5", "0">>>>,
     <<"min_contour_area", <<"5", "0", "0", "0">>>>,
     <<"max_contour_area", <<"5", "0", "0", "0", "0", "0">>>>,
     <<"max_contour_area", <<"4", "0", "0", "0", "0", "0">>>>,
     <<"language", <<"e", "n">>>>}

\* the history of successful configuration: configured[key] follows the call
Configured(h, key, value, ret) ==
    IF ret = "SUCCESS" /\ key \in NumericKeys
    THEN [h EXCEPT ![key] = <<stod(value).value>>]
    ELSE h

\* the caller calls id_reader_set_config
CallSetConfig ==
    /\ api.fn = "none"
    /\ \E kv \in SetConfigCalls : \E null \in {"none", "context", "key", "value"} :
          LET r == id_reader_set_config(ctx, null, kv[1], kv[2])
          IN  /\ ctx' = [r.ctx EXCEPT !.configured = Configured(@, kv[1], kv[2], r.ret)]
              /\ api' = [IdleApi EXCEPT !.fn = "set_config", !.ret = r.ret, !.null = null,
                                        !.key = kv[1], !.value = kv[2]]
    /\ UNCHANGED <<params, explicit, call, bounds, sortRun, calc>>

----------------------------------------------------------------------------
(* The C API: id_reader_process_image *)

\* <<width, height>> of the images id_reader_process_image is given in the
\* model; <<0, 0>> is an image without pixels
ApiImages == {<<0, 0>>, <<160, 120>>, <<800, 600>>}

\* id_reader_image_format_t (id_reader.h, lines 59-65) and a value outside it
RGB == 0
RGBA == 1
BGR == 2
BGRA == 3
GRAYSCALE == 4
ImageFormats == {RGB, RGBA, BGR, BGRA, GRAYSCALE}
ApiFormats == {RGB, BGR, GRAYSCALE + 1}

\* cv::findContours (document_detector.cpp, line 81): for each image of the
\* model the contours an edge map of it may hold, each with its measures
MeasuredContours ==
    {[cols |-> img[1], rows |-> img[2],
      contours |-> IF img[1] = 0 \/ img[2] = 0 THEN {}
                   ELSE {DocumentDetector_measured(c, img[1], img[2]) :
                            c \in Candidates(img[1], img[2])}] : img \in ApiImages}

\* lines 217-231: the object *result points to on success
FilledResult(b) ==
    [document_type |-> "UNKNOWN", country |-> "UNKNOWN", bounds |-> b,
     fields |-> "NULL", field_count |-> 0, overall_confidence |-> b.confidence,
     written |-> {"document_type", "country", "bounds", "fields", "field_count",
                  "overall_confidence"}]

\* a variant that allocates *result before the detection
ProcessAfterDetectEarlyAlloc(r, before) ==
    IF r.ret = "false"
    THEN {[ret |-> "NO_DOCUMENT_FOUND", result |-> "new", object |-> NewResult, detection |-> r]}
    ELSE {[ret |-> "SUCCESS", result |-> "new", object |-> FilledResult(r.bounds),
           detection |-> r],
          [ret |-> "PROCESSING_FAILED", result |-> before, object |-> NewResult,
           detection |-> r]}

\* lines 211-233, once detectDocument returned r; before is *result at the
\* call.  operator new returns an object or throws std::bad_alloc.
ProcessAfterDetect(r, before) ==
    IF r.ret = "false"
    THEN {[ret |-> "NO_DOCUMENT_FOUND", result |-> before, object |-> NewResult, detection |-> r]}
    ELSE {[ret |-> "SUCCESS", result |-> "new", object |-> FilledResult(r.bounds),
           detection |-> r],
          [ret |-> "PROCESSING_FAILED", result |-> before, object |-> NewResult,
           detection |-> r]}

\* id_reader_process_image (lines 167-237) on context c: the possible results.
\* null names the null pointer among context, image, result and image->data,
\* or is "none"; cands is what cv::findContours finds in the image.
\* cv::cvtColor raises cv::Exception on an image without pixels.
id_reader_process_image(c, null, format, cols, rows, cands, before) ==
    LET stop(ret) == {[ret |-> ret, result |-> before, object |-> NewResult,
                       detection |-> NoDetection]}
    IN  IF null # "none" THEN stop("INVALID_INPUT")
        ELSE IF format \notin ImageFormats THEN stop("UNSUPPORTED_FORMAT")
        ELSE IF format \in {RGB, RGBA, BGRA} /\ (cols = 0 \/ rows = 0)
             THEN stop("PROCESSING_FAILED")
        ELSE UNION {ProcessAfterDetect(r, before) :
                       r \in DocumentDetector_detectDocument(c.detector, cols, rows, cands)}

\* the caller calls id_reader_process_image
CallProcessImage ==
    /\ api.fn = "none"
    /\ \E img \in MeasuredContours :
       \E null \in {"none", "context", "image", "result", "data"} :
       \E format \in ApiFormats :
       \E before \in {"NULL", "old"} :
       \E cands \in (IF null = "none" /\ format \in ImageFormats THEN ListsOver(img.contours)
                     ELSE {<<>>}) :
       \E o \in id_reader_process_image(ctx, null, format, img.cols, img.rows, cands, before) :
          api' = [IdleApi EXCEPT !.fn = "process_image", !.ret = o.ret, !.null = null,
                                 !.format = format, !.cols = img.cols, !.rows = img.rows,
                                 !.before = before, !.result = o.result,
                                 !.object = o.object, !.detection = o.detection]
    /\ UNCHANGED <<params, explicit, call, bounds, sortRun, ctx, calc>>

\* the caller has looked at what the call returned (and has freed a result it
\* was given); its result pointer is NULL again
ApiReturn ==
    /\ api.fn # "none"
    /\ api' = IdleApi
    /\ UNCHANGED <<params, explicit, call, bounds, sortRun, ctx, calc>>

NextApi ==
    \/ CallSetConfig
    \/ CallProcessImage
    \/ ApiReturn

SpecApi == Init /\ [][NextApi]_vars

----------------------------------------------------------------------------
(* Properties of detectDocument *)

Returned == call.ret \in {"true", "false"}

\* C1: for every non-empty input image detectDocument returns false, or returns
\* true with the confidence in [0, 1] and each of the eight normalized
\* coordinates in [0, 1], with and without downscaling
C1_FalseOrInRange ==
    (call.ret # "none" /\ call.cols > 0 /\ call.rows > 0) =>
        \/ call.ret = "false"
        \/ /\ call.ret = "true"
           /\ bounds.confidence >= 0 /\ bounds.confidence <= 100000000
           /\ \A i \in 1..4 : F32InUnit(bounds.x[i]) /\ F32InUnit(bounds.y[i])

\* C5: when cv::findContours yields no contour, or the filter removes every
\* contour, detectDocument returns false and neither scoring nor corner
\* resolution, ordering or normalization is executed
C5_NoCandidates ==
    ("findContours" \in call.stages /\ (call.found = 0 \/ call.kept = 0)) =>
        /\ call.ret = "false"
        /\ call.stages \cap {"score", "rescale", "corners", "sort", "normalize"} = {}

\* a call in which contours were found and the filter removed all of them
C5_AllFiltered ==
    /\ "findContours" \in call.stages
    /\ call.found > 0 /\ call.kept = 0
    /\ call.ret = "false"

\* C6: whenever detectDocument succeeds the confidence equals the score by
\* which findBestDocumentContour selected the winner (and so exceeds 0.1),
\* also when the image was downscaled
C6_ConfidenceIsBestScore ==
    call.ret = "true" =>
        bounds.confidence = call.bestScore /\ bounds.confidence > 10000000

\* C8: after a setter was called, every later detectDocument call filters and
\* scores with the values the setter was given, not those of the resolution table
C8_ExplicitPrecedence ==
    (Returned /\ "adapt" \in call.stages) =>
        /\ explicit.canny # <<>> =>
              call.used.canny1 = explicit.canny[1] /\ call.used.canny2 = explicit.canny[2]
        /\ explicit.area # <<>> =>
              call.used.minArea = explicit.area[1] /\ call.used.maxArea = explicit.area[2]
        /\ explicit.aspect # <<>> =>
              call.used.target = explicit.aspect[1] /\ call.used.tol = explicit.aspect[2]

\* C9: an image whose larger dimension exceeds 1200 is downscaled so that its
\* larger dimension is 1200, any other is processed at its size; the working
\* image's longer side never exceeds 1200
C9_LongerSideCapped ==
    (Returned /\ "adapt" \in call.stages) =>
        /\ Max(call.cols, call.rows) > 1200 => Max(call.wcols, call.wrows) = 1200
        /\ Max(call.cols, call.rows) <= 1200 => call.wcols = call.cols /\ call.wrows = call.rows
        /\ Max(call.wcols, call.wrows) <= 1200

\* C10: when detectDocument returns false none of the nine fields of the
\* caller's DocumentBounds has been written, and when it returns true all nine have
C10_NoPartialSuccess ==
    /\ call.ret = "false" => bounds.written = {} /\ bounds = FreshBounds
    /\ call.ret = "true" => bounds.written = AllFields

\* a call that returns false as late as it can: corner resolution does not yield 4 points
C10_FailsAtCorners ==
    /\ call.ret = "false"
    /\ "corners" \in call.stages
    /\ call.bestScore > 10000000

\* c is a 4-vertex axis-aligned rectangle listed from its top-left corner clockwise
IsRectangle(c) ==
    /\ Len(c) = 4
    /\ PX(c[1]) < PX(c[3]) /\ PY(c[1]) < PY(c[3])
    /\ c = Rect(PX(c[1]), PY(c[1]), PX(c[3]), PY(c[3]))

\* a w x h rectangle from (x1, y1): centred in the W x H frame to the pixel,
\* w within half a pixel of 1.586 h, area between 20% and 70% of the frame's
IsCenteredID1Of(x1, y1, w, h, W, H) ==
    /\ Abs(2 * x1 + w - W) <= 1 /\ Abs(2 * y1 + h - H) <= 1
    /\ 2 * Abs(1000 * w - 1586 * h) <= 1000
    /\ 5 * (w * h) >= W * H /\ 10 * (w * h) <= 7 * (W * H)

IsCenteredID1(c, W, H) ==
    /\ IsRectangle(c)
    /\ IsCenteredID1Of(PX(c[1]), PY(c[1]), PX(c[3]) - PX(c[1]), PY(c[3]) - PY(c[1]), W, H)

\* C4: a candidate that is a centred 4-vertex axis-aligned rectangle of ratio
\* 1.586 up to pixel rounding and of 20% to 70% of the frame's area is detected
\* (detectDocument returns true) with confidence >= 0.8, in every resolution bucket
C4_ID1Detected ==
    (Returned /\ IsCenteredID1(call.best, call.wcols, call.wrows)) =>
        call.ret = "true" /\ bounds.confidence >= 80000000

\* such a rectangle wins in a downscaled image and is reported
C4_ID1Reported ==
    /\ call.ret = "true"
    /\ call.scaled
    /\ IsCenteredID1(call.best, call.wcols, call.wrows)

\* C7: for every successful detection and every corner, the normalized x times
\* the original width and the normalized y times the original height reproduce
\* the ordered pixel corner within one pixel
C7_RoundTrip ==
    call.ret = "true" =>
        \A i \in 1..4 :
            /\ Abs(F32MulTrunc(bounds.x[i], call.cols) - PX(call.sorted[i])) <= 1
            /\ Abs(F32MulTrunc(bounds.y[i], call.rows) - PY(call.sorted[i])) <= 1

\* a successful detection one of whose coordinates does not come back exactly
C7_InexactRoundTrip ==
    /\ call.ret = "true"
    /\ \E i \in 1..4 : F32MulTrunc(bounds.x[i], call.cols) # PX(call.sorted[i])

----------------------------------------------------------------------------
(* Properties of sortCornerPoints *)

\* C2: for any 4 distinct integer points sortCornerPoints returns the same
\* 4-tuple for all 24 orders of the input, also when two points are equidistant
\* from the origin or have equal angles about the integer-truncated centroid
C2_OrderIndependent ==
    (sortRun.out # <<>> /\ sortRun.ref # <<>>) => sortRun.out = sortRun.ref

\* the four points are the corners of a convex quadrilateral
ConvexPosition(points) == \A i \in 1..4 : IsHullVertex(points[i], Range(points))

NearestFirst(out) == \A j \in 1..4 : Norm2(out[1]) <= Norm2(out[j])

\* going round out, the angle about the centroid steps down at most once
Descents(out, v) == {i \in 1..4 : AngleLess(v[(i % 4) + 1], v[i])}

CyclicAscending(out) == Cardinality(Descents(out, VectorsFrom(out, Centroid(out)))) <= 1

\* with y pointing down, every turn of out is a right turn
ClockwiseOnScreen(out) ==
    \A i \in 1..4 : Cross(out[i], out[(i % 4) + 1], out[((i + 1) % 4) + 1]) > 0

\* the rectangle (top-left, top-right, bottom-right, bottom-left) over the points' bounding box
BoxOf(points) == Rect(SetMin(Xs(points)), SetMin(Ys(points)), SetMax(Xs(points)), SetMax(Ys(points)))

AxisAligned(points) == Range(points) = Range(BoxOf(points))

\* C3: for the corners of a convex quadrilateral with non-negative coordinates
\* sortCornerPoints returns the point nearest to (0,0) first and the others in
\* cyclic ascending order of angle about the centroid, clockwise on screen; for
\* an axis-aligned rectangle the result is (top-left, top-right, bottom-right,
\* bottom-left)
C3_ClockwiseFromTopLeft ==
    (sortRun.out # <<>> /\ ConvexPosition(sortRun.pts)) =>
        /\ NearestFirst(sortRun.out)
        /\ CyclicAscending(sortRun.out)
        /\ ClockwiseOnScreen(sortRun.out)
        /\ AxisAligned(sortRun.pts) => sortRun.out = BoxOf(sortRun.pts)

----------------------------------------------------------------------------
(* Properties of the C API *)

ParameterOf(d, key) ==
    CASE key = "canny_threshold1" -> d.canny_threshold1_
      [] key = "canny_threshold2" -> d.canny_threshold2_
      [] key = "min_contour_area" -> d.min_contour_area_
      [] key = "max_contour_area" -> d.max_contour_area_

\* C11: after any sequence of successful id_reader_set_config calls each detector
\* parameter (canny_threshold1, canny_threshold2, min_contour_area,
\* max_contour_area) equals the value most recently configured for its own key,
\* or its default (50, 150, 10000, 500000) if the key was never set; setting one
\* key never changes the parameter of another key, so that after the four calls
\* of DetectionTestFramework::initialize the minimum contour area is 5000
C11_OwnKeyOrDefault ==
    \A key \in NumericKeys :
        ParameterOf(ctx.detector, key) =
            IF ctx.configured[key] = <<>> THEN ParameterOf(DocumentDetectorNew, key)
            ELSE ctx.configured[key][1]

\* C12: id_reader_process_image allocates and writes *result if and only if it
\* returns ID_READER_SUCCESS; on every error return *result is what it was
\* before the call (NULL stays NULL) and nothing was allocated.  On success the
\* object has document_type UNKNOWN, country UNKNOWN, fields NULL, field_count 0
\* and overall_confidence equal to the confidence of its bounds, which are the
\* detector's
C12_ResultIffSuccess ==
    api.fn = "process_image" =>
        /\ (api.ret = "SUCCESS") <=> (api.result = "new")
        /\ api.ret # "SUCCESS" => (api.result = api.before /\ api.object = NewResult)
        /\ api.ret = "SUCCESS" =>
              /\ api.object.document_type = "UNKNOWN"
              /\ api.object.country = "UNKNOWN"
              /\ api.object.fields = "NULL"
              /\ api.object.field_count = 0
              /\ api.object.bounds = api.detection.bounds
              /\ api.object.overall_confidence = api.detection.bounds.confidence

\* a call that succeeded where the caller's pointer held an earlier value
C12_SuccessOverOld ==
    /\ api.fn = "process_image"
    /\ api.ret = "SUCCESS"
    /\ api.before = "old"
    /\ api.result = "new"
    /\ api.object.overall_confidence > 0

\* C13: whenever DocumentDetector::detectDocument returns true on a non-empty
\* image, the eight coordinates are in [0, 1] and the confidence is
\* (area_confidence + shape_confidence) / 2 and in [0, 1], on the path of four
\* vertices and on the path of the bounding rectangle
C13_TrueMeansInRange ==
    api.detection.ret = "true" =>
        /\ api.cols > 0 /\ api.rows > 0
        /\ api.detection.path \in {"four", "rect"}
        /\ \A i \in 1..4 : F32InUnit(api.detection.bounds.x[i])
                             /\ F32InUnit(api.detection.bounds.y[i])
        /\ api.detection.area_confidence >= 0 /\ api.detection.area_confidence <= 1000000
        /\ api.detection.shape_confidence \in {300000, 700000, 1000000}
        /\ api.detection.bounds.confidence =
              50 * (api.detection.area_confidence + api.detection.shape_confidence)
        /\ api.detection.bounds.confidence >= 0
        /\ api.detection.bounds.confidence <= 100000000

\* a detection on the path of the bounding rectangle whose area counted
C13_RectPathDetected ==
    /\ api.detection.ret = "true"
    /\ api.detection.path = "rect"
    /\ api.detection.area_confidence > 0
    /\ \E i \in 1..4 : api.detection.bounds.x[i].m # 0

----------------------------------------------------------------------------
(* Properties of the parameters and of the scoring *)

\* the resolution table as the claim words it, in units of 1/10000
ClaimedRow(min_dimension) ==
    CASE min_dimension < 400 -> <<30, 90, 500, 9500, 200, 5000>>
      [] min_dimension >= 400 /\ min_dimension <= 799 -> <<25, 75, 100, 9000, 150, 4000>>
      [] min_dimension >= 800 /\ min_dimension <= 1499 -> <<20, 60, 50, 8500, 100, 3500>>
      [] min_dimension >= 1500 -> <<15, 45, 20, 8000, 80, 3000>>

\* C14: for every working size with width, height >= 1 adaptParametersForImageSize
\* yields the row of the table chosen by min(width, height) (<400: 30/90, 0.05,
\* 0.95, 0.02, 0.50; 400-799: 25/75, 0.01, 0.90, 0.015, 0.40; 800-1499: 20/60,
\* 0.005, 0.85, 0.01, 0.35; >=1500: 15/45, 0.002, 0.80, 0.008, 0.30) and then,
\* if and only if max / min > 2.5, halves minAreaRatio and multiplies
\* aspectTolerance by 1.2, exactly once whatever the calls before
C14_TableRowThenWide ==
    calc.fn = "adaptParametersForImageSize" =>
        LET lo == IF calc.in[1] < calc.in[2] THEN calc.in[1] ELSE calc.in[2]
            hi == IF calc.in[1] < calc.in[2] THEN calc.in[2] ELSE calc.in[1]
            row == ClaimedRow(lo)
            wide == 10 * hi > 25 * lo
        IN  /\ params.canny1 = row[1]
            /\ params.canny2 = row[2]
            /\ 2 * params.minArea = (IF wide THEN 1 ELSE 2) * row[3]
            /\ params.maxArea = row[4]
            /\ params.eps = row[5]
            /\ 10 * params.tol = (IF wide THEN 12 ELSE 10) * row[6]

\* a wide working image adapted after another wide one: a ratio just above 2.5
C14_WideAfterWide ==
    /\ calc.fn = "adaptParametersForImageSize"
    /\ calc.in = <<3751, 1500>>
    /\ calc.out.minArea = 10
    /\ params.minArea = 10
    /\ params.tol = 3600

\* C15: in every reachable state of ISO_ID1_DocumentDetector (construction, any
\* sequence of setter calls, detectDocument calls) the thresholds, the area
\* ratios, the epsilon factor and the tolerance are strictly positive,
\* minAreaRatio < maxAreaRatio, and targetAspectRatio is 1.586
C15_ParametersValid ==
    /\ params.canny1 > 0 /\ params.canny2 > 0
    /\ params.minArea > 0 /\ params.maxArea > 0
    /\ params.eps > 0 /\ params.tol > 0
    /\ params.minArea < params.maxArea
    /\ params.target = 15860

Scored == calc.fn = "calculateDocumentScore" /\ calc.in.n >= 4

\* C18: for every candidate of at least 4 vertices inside the image
\* calculateDocumentScore is 0.25 * area + 0.40 * aspect + 0.15 * shape
\* + 0.20 * centeredness, each sub-score is in [0, 1] (the centeredness is never
\* negative) and the total is in [0, 1]
C18_WeightedSumInUnit ==
    Scored =>
        /\ \A k \in {"area", "aspect", "shape", "position"} :
              calc.out.parts[k] >= 0 /\ calc.out.parts[k] <= 1000000
        /\ calc.out.total = 25 * calc.out.parts.area + 40 * calc.out.parts.aspect
                              + 15 * calc.out.parts.shape + 20 * calc.out.parts.position
        /\ calc.out.total >= 0 /\ calc.out.total <= 100000000

\* a candidate with every sub-score 1, and so the total 1
C18_PerfectCandidate ==
    /\ Scored
    /\ calc.out.parts.area = 1000000 /\ calc.out.parts.aspect = 1000000
    /\ calc.out.parts.shape = 1000000 /\ calc.out.parts.position = 1000000
    /\ calc.out.total = 100000000

\* r = area / image area compared with k / 1000
RatioAtLeast(k) == 1000 * calc.in.area2 >= 2 * k * (ScoreFrame[1] * ScoreFrame[2])
RatioAtMost(k) == 1000 * calc.in.area2 <= 2 * k * (ScoreFrame[1] * ScoreFrame[2])

\* C19: the area sub-score is 1.0 if r is in [0.01, 0.70], 0.9 if r is in
\* (0.85, 0.99], 0.5 if r is in [0.002, 0.01) or (0.70, 0.85], and 0 if
\* r < 0.002 or r > 0.99
C19_AreaScoreByRatio ==
    Scored =>
        calc.out.parts.area =
            CASE RatioAtLeast(10) /\ RatioAtMost(700) -> 1000000
              [] ~RatioAtMost(850) /\ RatioAtMost(990) -> 900000
              [] (RatioAtLeast(2) /\ ~RatioAtLeast(10))
                    \/ (~RatioAtMost(700) /\ RatioAtMost(850)) -> 500000
              [] ~RatioAtLeast(2) \/ ~RatioAtMost(990) -> 0

\* a contour of exactly 0.85 of the frame: the sub-score is 0.5
C19_AtRatio85 ==
    /\ Scored
    /\ calc.in.area2 = 272000
    /\ calc.out.parts.area = 500000

Selected == calc.fn = "findBestDocumentContour"

\* the highest score of the list, 0 for the empty list
TopScore == SetMax({0} \cup {calc.in[i].score : i \in DOMAIN calc.in})

\* C16: the selection of the best candidate fails exactly when the highest
\* score is at most 0.1 and succeeds exactly when it is above 0.1; a list whose
\* simplified contours all have fewer than 4 vertices (score 0) always fails
C16_SucceedsAboveThreshold ==
    Selected =>
        /\ calc.out.ok <=> TopScore > 10000000
        /\ (\A i \in DOMAIN calc.in : calc.in[i].approx.n < 4) =>
              (TopScore = 0 /\ ~calc.out.ok)

\* a list whose highest score is exactly 0.1: the selection fails
C16_FailsAtThreshold ==
    /\ Selected
    /\ Len(calc.in) > 0
    /\ TopScore = 10000000
    /\ ~calc.out.ok

\* C17: findBestDocumentContour returns the simplified contour of the candidate
\* of maximum score among the filtered contours; of candidates of equal score
\* the one of lowest index
C17_FirstOfMaximumScore ==
    (Selected /\ calc.out.ok) =>
        /\ calc.out.index \in DOMAIN calc.in
        /\ calc.in[calc.out.index].score = TopScore
        /\ \A j \in 1..(calc.out.index - 1) : calc.in[j].score < TopScore
        /\ calc.out.contour.approx = calc.in[calc.out.index].approx
        /\ calc.out.score = TopScore

\* two candidates of equal, maximum score: the first is returned
C17_TieKeepsFirst ==
    /\ Selected
    /\ calc.out.ok
    /\ Len(calc.in) >= 2
    /\ calc.in[1].score = calc.in[2].score
    /\ calc.in[1].name # calc.in[2].name
    /\ calc.out.index = 1
    /\ calc.out.contour.name = calc.in[1].name

\* max(0, 1 - |a - t| / (t * tol)), as the claim words it
ClaimedAspectScore(a, t, tol) ==
    LET v == RatSub(<<1, 1>>, RatDiv(RatAbs(RatSub(a, t)), RatMul(t, tol)))
    IN  IF v[1] < 0 THEN <<0, 1>> ELSE v

\* C20: for every aspect ratio a > 0 of the bounding box, positive target t and
\* positive tolerance tol, the aspect sub-score of the code (0 when
\* |a - t| / t > tol, else 1 - (|a - t| / t) / tol) equals
\* max(0, 1 - |a - t| / (t * tol))
C20_AspectScoreIsClampedLine ==
    calc.fn = "aspect_score" =>
        RatCmp(calc.out, ClaimedAspectScore(calc.in.a, calc.in.t, calc.in.tol)) = 0

\* an aspect ratio beyond the tolerance, where the line is below 0 and the score is 0
C20_BeyondTolerance ==
    /\ calc.fn = "aspect_score"
    /\ calc.out[1] = 0
    /\ RatSub(<<1, 1>>, RatDiv(RatAbs(RatSub(calc.in.a, calc.in.t)),
                               RatMul(calc.in.t, calc.in.tol)))[1] < 0

----------------------------------------------------------------------------
(* Properties of the shape score, of the filter and of the corners *)

\* C21: the shape sub-score depends only on the number n of vertices of the
\* simplified contour: 1.0 for n = 4, 0.8 for 5 <= n <= 8, 0.5 for 9 <= n <= 12,
\* 0 for n > 12; a contour of fewer than 4 vertices has the total score 0
C21_ShapeScoreByVertices ==
    calc.fn = "calculateDocumentScore" =>
        /\ calc.in.n = 4 => calc.out.parts.shape = 1000000
        /\ calc.in.n \in 5..8 => calc.out.parts.shape = 800000
        /\ calc.in.n \in 9..12 => calc.out.parts.shape = 500000
        /\ calc.in.n > 12 => calc.out.parts.shape = 0
        /\ calc.in.n < 4 => calc.out.total = 0

\* a contour of 3 vertices whose other measures are those of a perfect card
C21_TriangleScoresZero ==
    /\ calc.fn = "calculateDocumentScore"
    /\ calc.in.n = 3
    /\ calc.out.parts.area = 1000000
    /\ calc.out.parts.position = 1000000
    /\ calc.out.total = 0

\* the claim's condition on one contour of the working image
AreaWithinLimits(c) ==
    /\ 5000 * c.area2 >= calc.in.p.minArea * (calc.in.cols * calc.in.rows)
    /\ 5000 * c.area2 <= calc.in.p.maxArea * (calc.in.cols * calc.in.rows)

CoversImage(c) ==
    c.br = [x |-> 0, y |-> 0, width |-> calc.in.cols, height |-> calc.in.rows]

DocumentLikeFrame(c) == 5 * c.br.width >= 6 * c.br.height /\ 5 * c.br.width <= 11 * c.br.height

\* C22: findDocumentContours keeps a contour if and only if its area is
\* within [minAreaRatio * imageArea, maxAreaRatio * imageArea] and, when its
\* bounding box is the whole image, width / height is in [1.2, 2.2]; it
\* returns false if and only if no contour is kept
C22_KeptIffWithinLimits ==
    calc.fn = "findDocumentContours" =>
        /\ \A i \in DOMAIN calc.in.contours :
              (\E j \in DOMAIN calc.out.contours : calc.out.contours[j] = calc.in.contours[i])
                 <=> (/\ AreaWithinLimits(calc.in.contours[i])
                      /\ CoversImage(calc.in.contours[i]) => DocumentLikeFrame(calc.in.contours[i]))
        /\ \A j \in DOMAIN calc.out.contours :
              \E i \in DOMAIN calc.in.contours : calc.in.contours[i] = calc.out.contours[j]
        /\ calc.out.ret = FALSE <=> Len(calc.out.contours) = 0

\* a contour over the whole of a square image is dropped for its aspect ratio
\* alone, and the one next to it is kept
C22_FullFrameDropped ==
    /\ calc.fn = "findDocumentContours"
    /\ Len(calc.in.contours) = 2
    /\ CoversImage(calc.in.contours[1])
    /\ AreaWithinLimits(calc.in.contours[1])
    /\ calc.out.contours = <<calc.in.contours[2]>>
    /\ calc.out.ret = TRUE

\* the leftmost, rightmost, topmost and bottommost of points, each once
IsExtremesOf(corners, points) ==
    /\ Range(corners) \subseteq Range(points)
    /\ Cardinality(Range(corners)) = Len(corners)
    /\ Len(corners) <= 4
    /\ \E q \in Range(corners) : \A r \in Range(points) : PX(q) <= PX(r)
    /\ \E q \in Range(corners) : \A r \in Range(points) : PX(q) >= PX(r)
    /\ \E q \in Range(corners) : \A r \in Range(points) : PY(q) <= PY(r)
    /\ \E q \in Range(corners) : \A r \in Range(points) : PY(q) >= PY(r)

----------------------------------------------------------------------------
(* Properties of the corner order of both detectors *)

\* C24: for 4 distinct points that are the corners of a convex quadrilateral,
\* axis-aligned or rotated, DocumentDetector::sortCornerPoints returns them as
\* (top-left, top-right, bottom-right, bottom-left): consecutive points of the
\* result are adjacent corners, going round clockwise on screen, so the
\* polygon of the result does not cross itself
C24_AdjacentCornersInTurn ==
    (/\ calc.fn = "DocumentDetector::sortCornerPoints"
     /\ Cardinality(Range(calc.in)) = 4
     /\ ConvexPosition(calc.in)) =>
        ClockwiseOnScreen(calc.out)

\* the number of places of the list s that hold q
Occurrences(s, q) == Cardinality({i \in DOMAIN s : s[i] = q})

\* C29: for any 4 points, equal or collinear ones included, the result of
\* sortCornerPoints of either detector is a permutation of its input: every
\* point occurs in the result as often as in the input
C29_ResultIsPermutation ==
    calc.fn # "none" =>
        /\ Len(calc.out) = 4
        /\ \A q \in GridPoints : Occurrences(calc.out, q) = Occurrences(calc.in, q)

\* DocumentDetector::sortCornerPoints has ordered a list in which one point
\* occurs twice and the other two lie on a line with it
C29_DuplicateOrdered ==
    /\ calc.fn = "DocumentDetector::sortCornerPoints"
    /\ calc.in = <<<<1, 1>>, <<0, 0>>, <<1, 1>>, <<2, 2>>>>
    /\ Occurrences(calc.out, <<1, 1>>) = 2

----------------------------------------------------------------------------
(* Properties of the preprocessing *)

\* C25: with low = max(10, mean - stddev) and high = min(200, mean + stddev)
\* from the statistics of the blurred image, the low edge threshold never
\* exceeds the high one, for every mean in [0, 255] and every stddev >= 0,
\* very dark and very bright nearly uniform images included
C25_LowAtMostHigh ==
    calc.fn = "preprocessImageForID1Document" => calc.out.low <= calc.out.high

----------------------------------------------------------------------------
(* Properties of the working image *)

\* C26: for every non-empty input image (width >= 1, height >= 1), very wide
\* images that are downscaled included, the working image has width >= 1 and
\* height >= 1 and detectDocument ends by returning true or false, not by a fault
C26_WorkingImageNotEmpty ==
    (call.ret # "none" /\ call.cols >= 1 /\ call.rows >= 1) =>
        /\ call.ret \in {"true", "false"}
        /\ call.wcols >= 1
        /\ call.wrows >= 1

\* C27: in every detectDocument call the working image is at most 1200 wide,
\* so its smaller dimension is at most 1200 and the parameters of the table
\* row for a smaller dimension >= 1500 (15/45, 0.002, 0.80, 0.008, 0.30) are
\* never the ones a call detects with
C27_TopRowNeverSelected ==
    (call.ret \in {"true", "false"} /\ call.cols >= 1) =>
        /\ call.wcols <= 1200
        /\ Min(call.wcols, call.wrows) <= 1200
        /\ call.used.canny1 # 15
        /\ call.used.canny2 # 45
        /\ call.used.maxArea # 8000
        /\ call.used.eps # 80

\* a call on an image whose smaller dimension is 2000: detected at 1200 x 800
\* with the row for a smaller dimension of 800 to 1499
C27_LargeImageDownscaled ==
    /\ call.ret = "true"
    /\ Min(call.cols, call.rows) >= 1500
    /\ call.wcols = 1200
    /\ call.wrows = 800
    /\ call.used.canny1 = 20
    /\ call.used.canny2 = 60

----------------------------------------------------------------------------
(* Properties of a detector across calls *)

\* C28: detection is history-independent: of two detectors with the same
\* target aspect ratio, detectDocument on the same image returns the same
\* outcome and the same bounds whatever calls, on images of any size,
\* succeeding or failing, one of them served before; the adjustment of the
\* minimum area ratio and of the aspect tolerance for wide frames does not
\* accumulate across calls
C28_HistoryIndependent ==
    calc.fn = "detectDocument" => calc.out.first = calc.out.second

\* a detector that holds the parameters adjusted for a wide frame by an
\* earlier call detects a document in a wide frame again
C28_WideAfterWide ==
    /\ calc.fn = "detectDocument"
    /\ calc.in.before.minArea = 50
    /\ calc.in.before.tol = 4800
    /\ IsWide(WorkingSize(calc.in.cols, calc.in.rows)[1], WorkingSize(calc.in.cols, calc.in.rows)[2])
    /\ \E o \in calc.out.first : o.ret = "true" /\ o.used.minArea = 50

----------------------------------------------------------------------------
(* Properties of the configuration *)

\* C30: when id_reader_set_config returns an error (a null argument, or a
\* value that is no number for one of the numeric keys) the context is
\* unchanged: the config map holds the entries it held, so id_reader_get_config
\* of that key returns what it returned before, and the detector's parameters
\* are the same
C30_ErrorLeavesContext ==
    [][(api'.fn = "set_config" /\ api'.ret # "SUCCESS") =>
          /\ ctx'.config = ctx.config
          /\ \A size \in 0..8 : id_reader_get_config(ctx', api'.key, size)
                                   = id_reader_get_config(ctx, api'.key, size)
          /\ ctx'.detector = ctx.detector]_vars

====
